---- MODULE Spec2Model ----
(***************************************************************************)
(* Guest-slot allocator, volume seeder and volume collector of the         *)
(* JupyterHub management API (src/jupyterhub).                             *)
(*                                                                         *)
(* Strings of the program are sequences of one-character strings, so that  *)
(* str.startswith, str.replace, f-string concatenation, str() and int()    *)
(* are computed character by character as Python computes them.            *)
(*                                                                         *)
(* The repository holds two copies of the logic: the refactored package    *)
(* (api/jupyterhub_api/api.py + utils.py, impl "api") and the older        *)
(* stand-alone module (jupyterhub_api.py, impl "legacy").                  *)
(***************************************************************************)
EXTENDS Integers, Sequences, FiniteSets, TLC

\* ------------------------------------------------------------------ bounds
\* largest pool size CKAN_JUPYTERHUB_USER takes
MaxPool == 3
\* longest user list the hub's /hub/api/users answers with
MaxRecords == 2

\* ----------------------------------------------------------------- strings
DigitChars == <<"0", "1", "2", "3", "4", "5", "6", "7", "8", "9">>

IsDigit(c) == \E d \in 1..10 : DigitChars[d] = c

DigitVal(c) == (CHOOSE d \in 1..10 : DigitChars[d] = c) - 1

\* Python str(i) for i >= 0
RECURSIVE Str(_)
Str(i) == IF i < 10 THEN <<DigitChars[i + 1]>>
          ELSE Str(i \div 10) \o <<DigitChars[(i % 10) + 1]>>

RECURSIVE DigitsVal(_)
DigitsVal(s) == IF s = <<>> THEN 0
                ELSE 10 * DigitsVal(SubSeq(s, 1, Len(s) - 1)) + DigitVal(s[Len(s)])

AllDigits(s) == s # <<>> /\ \A i \in 1..Len(s) : IsDigit(s[i])

\* Python int(s) of a str: an optional sign and decimal digits, and ValueError
\* for anything else ([ok |-> FALSE]).
IntOf(s) ==
    IF AllDigits(s) THEN [ok |-> TRUE, val |-> DigitsVal(s)]
    ELSE IF s # <<>> /\ s[1] \in {"-", "+"} /\ AllDigits(Tail(s))
         THEN [ok |-> TRUE,
               val |-> IF s[1] = "-" THEN 0 - DigitsVal(Tail(s)) ELSE DigitsVal(Tail(s))]
         ELSE [ok |-> FALSE, val |-> 0]

\* str.startswith
StartsWith(s, p) == Len(s) >= Len(p) /\ SubSeq(s, 1, Len(p)) = p

\* str.replace(old, ''): every non-overlapping occurrence, left to right
RECURSIVE ReplaceAll(_, _)
ReplaceAll(s, old) ==
    IF s = <<>> THEN <<>>
    ELSE IF StartsWith(s, old) THEN ReplaceAll(SubSeq(s, Len(old) + 1, Len(s)), old)
         ELSE <<Head(s)>> \o ReplaceAll(Tail(s), old)

\* the literal 'jupyterhub-' of get_volume_name and of the collector's replace
JUPYTERHUB_PREFIX == <<"j", "u", "p", "y", "t", "e", "r", "h", "u", "b", "-">>

\* the literal 'guest' of get_guest_list
GUEST == <<"g", "u", "e", "s", "t">>

\* the literal 'jupyterhub-guest' of the collector's startswith
GUEST_VOLUME_PREFIX == JUPYTERHUB_PREFIX \o GUEST

\* the literal 'user-' of the spawner's non-guest volume 'jupyterhub-user-<name>'
USER_ == <<"u", "s", "e", "r", "-">>

ALICE == <<"a", "l", "i", "c", "e">>

\* ----------------------------------------------------------- pure functions
\* GuestListOf counting from one: "guest1", ..., "guest<n>"
GuestListOf_FromOne(n) == [i \in 1..(IF n > 0 THEN n ELSE 0) |-> GUEST \o Str(i)]

\* get_guest_list(n), n an int: ["guest0", ..., "guest<n-1>"] (range(0, n) is
\* empty for n <= 0)
GuestListOf(n) == [i \in 1..(IF n > 0 THEN n ELSE 0) |-> GUEST \o Str(i - 1)]

\* get_guest_list(n), n the str read from the environment: int(n) raises
\* ValueError on a non-numeric str
get_guest_list(n) ==
    LET p == IntOf(n)
    IN  IF p.ok THEN [ok |-> TRUE, list |-> GuestListOf(p.val)]
        ELSE [ok |-> FALSE, list |-> <<>>]

get_volume_name(username) == JUPYTERHUB_PREFIX \o username

Range(f) == {f[i] : i \in DOMAIN f}

\* -------------------------------------------------------------- environment
\* os.getenv('CKAN_JUPYTERHUB_USER'): None when unset, else a str
Unset == [set |-> FALSE, val |-> <<>>]

EnvStr(s) == [set |-> TRUE, val |-> s]

\* Python truthiness of os.getenv's result: None and '' are falsy
Truthy(e) == e.set /\ e.val # <<>>

PoolSizes == {EnvStr(Str(i)) : i \in 1..MaxPool}

EnvValues ==
    PoolSizes \cup {Unset, EnvStr(<<>>), EnvStr(<<"0">>), EnvStr(<<"-", "1">>),
                    EnvStr(<<"a", "b", "c">>)}

\* --------------------------------------------------- the hub's user listing
\* names the hub may list: the guests, one past the pool, and a non-guest
HubNames == {GUEST \o Str(i) : i \in 0..MaxPool} \cup {ALICE}

\* one element of the listing: a JSON object with optional "name" and a
\* "server" that is truthy or not, or a JSON value that is no object
Items ==
    [dict : {TRUE}, has_name : {TRUE}, name : HubNames, server : BOOLEAN]
    \cup [dict : {TRUE}, has_name : {FALSE}, name : {<<>>}, server : BOOLEAN]
    \cup [dict : {FALSE}, has_name : {FALSE}, name : {<<>>}, server : {FALSE}]

RECURSIVE SeqsUpTo(_, _)
SeqsUpTo(S, n) ==
    IF n = 0 THEN {<<>>}
    ELSE LET shorter == SeqsUpTo(S, n - 1)
         IN  shorter \cup {Append(s, x) : s \in {t \in shorter : Len(t) = n - 1}, x \in S}

\* bodies: not JSON at all, a JSON scalar (a number), a non-empty JSON object,
\* a JSON array of items
Bodies ==
    [json : {"invalid", "scalar", "object"}, items : {<<>>}]
    \cup [json : {"list"}, items : SeqsUpTo(Items, MaxRecords)]

\* what requests.get meets: a connection error, a timeout, or a response
HubResponses ==
    [transport : {"conn_error", "timeout"}, status : {0}, body : {[json |-> "invalid", items |-> <<>>]}]
    \cup [transport : {"ok"}, status : {200}, body : Bodies]
    \cup [transport : {"ok"}, status : {204, 500}, body : {[json |-> "invalid", items |-> <<>>]}]

\* outcomes of a call: get_running_users returns a list of names (its set is
\* what the allocator uses), get_free_user a name or None; either may raise,
\* and a request without timeout may never return
Returned(names) == [kind |-> "return", names |-> names, user |-> <<>>, exc |-> "-"]

Raised(e) == [kind |-> "raise", names |-> {}, user |-> <<>>, exc |-> e]

Blocked == [kind |-> "blocked", names |-> {}, user |-> <<>>, exc |-> "-"]

NoUser == [kind |-> "none", names |-> {}, user |-> <<>>, exc |-> "-"]

User(u) == [kind |-> "user", names |-> {}, user |-> u, exc |-> "-"]

\* [user['name'] for user in users_info if user.get('server')], items left to
\* right: AttributeError at an item without .get, KeyError at a live record
\* without a name
RECURSIVE RunningNames(_)
RunningNames(items) ==
    IF items = <<>> THEN Returned({})
    ELSE LET u == Head(items)
             rest == RunningNames(Tail(items))
         IN  IF ~u.dict THEN Raised("AttributeError")
             ELSE IF u.server /\ ~u.has_name THEN Raised("KeyError")
             ELSE IF rest.kind # "return" THEN rest
             ELSE IF u.server THEN Returned({u.name} \cup rest.names)
             ELSE rest

\* the comprehension over the parsed payload
Comprehension(body) ==
    CASE body.json = "scalar" -> Raised("TypeError")
      [] body.json = "object" -> Raised("AttributeError")
      [] OTHER -> RunningNames(body.items)

\* api.py get_running_users: RequestException (connection error, timeout,
\* HTTPError of raise_for_status, requests' JSONDecodeError) and
\* json.JSONDecodeError / KeyError give []; anything else propagates
api_get_running_users(resp) ==
    IF resp.transport # "ok" THEN Returned({})
    ELSE IF resp.status >= 400 THEN Returned({})
    ELSE IF resp.body.json = "invalid" THEN Returned({})
    ELSE LET r == Comprehension(resp.body)
         IN  IF r.kind = "raise" /\ r.exc = "KeyError" THEN Returned({}) ELSE r

\* jupyterhub_api.py get_running_users: no try around requests.get and no
\* timeout; status other than 200 gives []; a JSONDecodeError is logged and the
\* function falls through to "return running_users", which is then unbound
legacy_get_running_users(resp) ==
    IF resp.transport = "conn_error" THEN Raised("ConnectionError")
    ELSE IF resp.transport = "timeout" THEN Blocked
    ELSE IF resp.status # 200 THEN Returned({})
    ELSE IF resp.body.json = "invalid" THEN Raised("UnboundLocalError")
    ELSE Comprehension(resp.body)

get_running_users(impl, resp) ==
    IF impl = "api" THEN api_get_running_users(resp) ELSE legacy_get_running_users(resp)

\* PickFree without the set difference: any guest, busy or not
PickFree_NoDifference(guests, running) ==
    IF Range(guests) = {} THEN {NoUser} ELSE {User(u) : u \in Range(guests)}

\* set(guest_list) - set(running_list), then free_users.pop() (an arbitrary
\* element) or None
PickFree(guests, running) ==
    LET free_users == Range(guests) \ running
    IN  IF free_users = {} THEN {NoUser} ELSE {User(u) : u \in free_users}

AfterQuery(guests, r) ==
    IF r.kind = "return" THEN PickFree(guests, r.names) ELSE {r}

\* api.py get_free_user: the set of outcomes the call can have
api_get_free_user(env, resp) ==
    IF ~Truthy(env) THEN {NoUser}
    ELSE LET g == get_guest_list(env.val)
         IN  IF ~g.ok THEN {Raised("ValueError")}
             ELSE AfterQuery(g.list, api_get_running_users(resp))

\* jupyterhub_api.py get_free_user: int(None) is a TypeError
legacy_get_free_user(env, resp) ==
    IF ~env.set THEN {Raised("TypeError")}
    ELSE LET g == get_guest_list(env.val)
         IN  IF ~g.ok THEN {Raised("ValueError")}
             ELSE AfterQuery(g.list, legacy_get_running_users(resp))

get_free_user(impl, env, resp) ==
    IF impl = "api" THEN api_get_free_user(env, resp) ELSE legacy_get_free_user(env, resp)

Impls == {"api", "legacy"}

\* ------------------------------------------------------------ the engine
\* user names volumes are made for: the guests guest0..guest<MaxPool>, and a
\* name that holds the prefix 'jupyterhub-' a second time
NESTED_USER == GUEST \o JUPYTERHUB_PREFIX \o <<"0">>

GuestNames == {GUEST \o Str(i) : i \in 0..MaxPool}

\* volumes of the engine: the guests' volumes, the spawner's read-only volume
\* of the non-guest alice, and the volume get_volume_name gives NESTED_USER
VolumeNames ==
    {get_volume_name(u) : u \in GuestNames}
    \cup {JUPYTERHUB_PREFIX \o USER_ \o ALICE, get_volume_name(NESTED_USER)}

\* a container's attrs['Mounts'] entries: a volume mount carries 'Name', a bind
\* mount does not
VolumeMount(v) == [Type |-> "volume", Name |-> v]

BindMount == [Type |-> "bind", Name |-> <<>>]

\* containers that exist beside the collector: a guest's running notebook
\* server, a stopped container that still references a guest volume, and a
\* running container with a bind mount and a non-guest volume
PreContainers ==
    {[id |-> "notebook0", state |-> "running",
      mounts |-> {VolumeMount(get_volume_name(GUEST \o Str(0)))}],
     [id |-> "stopped1", state |-> "exited",
      mounts |-> {VolumeMount(get_volume_name(GUEST \o Str(1)))}],
     [id |-> "alice", state |-> "running",
      mounts |-> {BindMount, VolumeMount(JUPYTERHUB_PREFIX \o USER_ \o ALICE)}]}

MountedVolumes(cs) == {m.Name : m \in {x \in UNION {c.mounts : c \in cs} : x.Type = "volume"}}

\* ------------------------------------------------------------------- state
VARIABLES
    environ,    \* os.environ['CKAN_JUPYTERHUB_USER']
    hub,        \* what GET <hub>/hub/api/users meets at present
    call,       \* the last allocator call: operation, copy, outcome
    volumes,    \* names of the engine's volumes
    created,    \* per volume name, how many volumes were created under it
    content,    \* per volume name, the files in the volume
    containers, \* the engine's containers
    collector,  \* per sweep, the frame of cleanup_unused_volumes
    image,      \* whether the engine holds the helper image busybox:1.36
    storage,    \* paths of the files that exist on the host
    seed,       \* the frame of the seeding call
    alloc,      \* per concurrent caller, the frame of get_free_user
    applied,    \* the last call of a function without side effects, and its result
    http,       \* per route of the Flask application, its last response
    srcfile,    \* the host's file at the path create_tar_archive is given
    tar,        \* two calls of create_tar_archive: what each saw and returned
    hubconf,    \* the hub process: its environment and what jupyterhub_config.py set
    spawner     \* one GuestDockerSpawner: its attributes and the frame of start()

allocVars == <<hub, call, alloc>>

engineVars == <<volumes, created, content, containers>>

seedVars == <<image, storage, seed>>

vars == <<environ, hub, call, volumes, created, content, containers, collector,
          image, storage, seed, alloc, applied, http, srcfile, tar, hubconf,
          spawner>>

\* the two sweeps that may run at once (the periodic volume-cleaner and a
\* direct POST /cleanup_volumes)
Sweeps == {"sweep_a", "sweep_b"}

IdleSweep ==
    [pc |-> "idle", impl |-> "-", max_users |-> Unset, listed |-> {},
     guest_list |-> <<>>, used |-> {}, todo |-> {}, removed_count |-> 0,
     calls |-> {}, result |-> 0]

NoCall == [op |-> "-", impl |-> "-", out |-> NoUser]

\* the routes of flaskr.py that reach the allocator, the seeder and the
\* collector
Routes == {"get_user", "copy_notebook", "cleanup_volumes"}

\* the payload of a response: the 'data' member, when there is one
NoData == [kind |-> "-", user |-> <<>>, count |-> 0]

NoResponse == [status |-> 0, success |-> FALSE, error |-> "", data |-> NoData]

\* create_response: 'success' is False exactly when error is truthy, and
\* 'data' is present when there is no error and data is not None
create_response(data, error, status_code) ==
    [status |-> status_code, success |-> error = "",
     error |-> error, data |-> IF error = "" THEN data ELSE NoData]

\* the file create_tar_archive is asked to pack: whether the path exists, its
\* bytes and its modification time
NoFile == [path |-> <<>>, exists |-> FALSE, data |-> <<>>, mtime |-> 0]

\* an io.BytesIO: the blocks written to it and the position of the stream
EmptyBuf == [blocks |-> <<>>, pos |-> 0]

NoArchive == [file |-> NoFile, exc |-> "-", buf |-> EmptyBuf]

\* two calls of create_tar_archive on one path: what each saw and returned
IdleTar == [pc |-> "idle", first |-> NoArchive, second |-> NoArchive]

\* the hub process before jupyterhub_config.py is loaded
NoHubConf == [environ |-> Unset, percentage |-> Unset, allowed_users |-> {}]

\* extra_host_config before start() sets it
NoLimits == [set |-> FALSE, cpu_period |-> 0, cpu_quota |-> 0]

\* a spawner not yet constructed: user_list, self.volumes (name and mode),
\* extra_host_config, the notebook name start() found, how the seeding and the
\* call ended, the invocations of DockerSpawner.start() and what the engine
\* held at the first one
IdleSpawner ==
    [pc |-> "idle", name |-> <<>>, user_list |-> <<>>, next_path |-> <<>>,
     volumes |-> {}, extra_host_config |-> NoLimits, notebook_name |-> <<>>,
     seeding |-> "-", logged |-> "-", starts |-> 0, out |-> "-",
     at_start |-> [files |-> {}, helper |-> FALSE, limits |-> NoLimits, volumes |-> {}]]

NotApplied ==
    [fn |-> "-", impl |-> "-", arg |-> Unset, ok |-> FALSE, exc |-> "-",
     list |-> <<>>, calls |-> 0, first |-> <<>>]

\* the requests of /get_user that may be in progress at once
Callers == {"caller_a", "caller_b"}

\* locals of one get_free_user call: guest_list, running_list, the result
IdleAlloc ==
    [pc |-> "idle", impl |-> "-", guest_list |-> <<>>, running_list |-> {},
     out |-> NoUser]

NoSteps ==
    [image |-> "-", create |-> "-", start |-> "-", mkdir |-> "-", build |-> "-",
     write |-> "-", remove |-> "-"]

IdleSeed ==
    [pc |-> "idle", caller |-> "-", username |-> <<>>, notebook_name |-> <<>>,
     volume_name |-> <<>>, src_file_path |-> <<>>,
     pending |-> [kind |-> "-", exc |-> "-"],
     out |-> [kind |-> "-", exc |-> "-"],
     result |-> [val |-> "-", exc |-> "-", logged |-> "-"],
     steps |-> NoSteps, pulls |-> 0, retry |-> FALSE,
     first |-> [files |-> {}, helper |-> FALSE, val |-> "-"]]

SeederIdle ==
    /\ image = TRUE
    /\ storage = {}
    /\ seed = IdleSeed

NoHub == [transport |-> "-", status |-> 0, body |-> [json |-> "invalid", items |-> <<>>]]

EngineEmpty ==
    /\ volumes = {}
    /\ created = [v \in VolumeNames |-> 0]
    /\ content = [v \in VolumeNames |-> {}]
    /\ containers = {}

InitAlloc ==
    /\ environ \in EnvValues
    /\ hub \in HubResponses
    /\ call = NoCall
    /\ applied = NotApplied
    /\ http = [r \in Routes |-> NoResponse]
    /\ srcfile = NoFile
    /\ tar = IdleTar
    /\ hubconf = NoHubConf
    /\ spawner = IdleSpawner
    /\ alloc = [c \in Callers |-> IdleAlloc]
    /\ EngineEmpty
    /\ collector = [s \in Sweeps |-> IdleSweep]
    /\ SeederIdle

\* one call of get_running_users (the /running_user route)
GetRunningUsers ==
    \E impl \in Impls :
        /\ call' = [op |-> "get_running_users", impl |-> impl,
                    out |-> get_running_users(impl, hub)]
        /\ UNCHANGED <<environ, hubconf, spawner, srcfile, tar, applied, http, hub, alloc, engineVars, collector, seedVars>>

\* one call of get_free_user (the /get_user route)
GetFreeUser ==
    \E impl \in Impls :
        \E out \in get_free_user(impl, environ, hub) :
            /\ call' = [op |-> "get_free_user", impl |-> impl, out |-> out]
            /\ UNCHANGED <<environ, hubconf, spawner, srcfile, tar, applied, http, hub, alloc, engineVars, collector, seedVars>>

NextAlloc == GetRunningUsers \/ GetFreeUser

SpecAlloc == InitAlloc /\ [][NextAlloc]_vars

\* ---------------------------------------------------------- the collector
\* volume_name.startswith('jupyterhub-guest')
IsGuestVolume(volume_name) == StartsWith(volume_name, GUEST_VOLUME_PREFIX)

\* ExtractUsername without the replace: the volume name itself
ExtractUsername_Identity(volume_name) == volume_name

\* username = volume_name.replace('jupyterhub-', '')
ExtractUsername(volume_name) == ReplaceAll(volume_name, JUPYTERHUB_PREFIX)

\* ShouldRemove that gives up after the first removal of a sweep
ShouldRemove_OncePerSweep(volume_name, used_volumes, guest_list) ==
    /\ IsGuestVolume(volume_name)
    /\ volume_name \notin used_volumes
    /\ ExtractUsername(volume_name) \in Range(guest_list)
    /\ \A s \in Sweeps : collector[s].removed_count = 0

\* the test of one loop iteration: a guest volume, not in used_volumes, whose
\* extracted username is in guest_list
ShouldRemove(volume_name, used_volumes, guest_list) ==
    /\ IsGuestVolume(volume_name)
    /\ volume_name \notin used_volumes
    /\ ExtractUsername(volume_name) \in Range(guest_list)

\* used_volumes: the 'Name' of every mount of 'Type' volume of the containers
\* client.containers.list() gives, which are the running ones
UsedVolumes(cs) == MountedVolumes({c \in cs : c.state = "running"})

\* the engine refuses to remove a volume a container references, running or
\* not; any other removal may succeed or fail
InUse(v) == v \in MountedVolumes(containers)

RemoveResults(v) == IF InUse(v) THEN {FALSE} ELSE {TRUE, FALSE}

\* the incarnation a removal of v deletes: none when no such volume exists
Incarnation(v) == IF v \in volumes THEN created[v] ELSE 0

Finish(s, result) ==
    collector' = [collector EXCEPT ![s].pc = "done", ![s].result = result]

\* entry: api.py reads CKAN_JUPYTERHUB_USER first and returns -1 when it is
\* unset or empty; jupyterhub_api.py reads it after listing the volumes
CollectStart(s) ==
    /\ collector[s].pc = "idle"
    /\ \E impl \in Impls :
        IF impl = "api" /\ ~Truthy(environ)
        THEN collector' = [collector EXCEPT ![s].pc = "done", ![s].impl = impl,
                                            ![s].result = -1]
        ELSE collector' = [collector EXCEPT ![s].pc = "list_volumes", ![s].impl = impl,
                                            ![s].max_users = environ]
    /\ UNCHANGED <<environ, hubconf, spawner, srcfile, tar, applied, http, allocVars, seedVars, engineVars>>

\* docker.from_env(), client.volumes.list() and get_guest_list: an engine
\* error, int(None) and int of a non-numeric str all end in "return -1"; the
\* volumes are listed before get_guest_list is called
CollectListVolumes(s) ==
    /\ collector[s].pc = "list_volumes"
    /\ \E engine_ok \in BOOLEAN :
        LET env == IF collector[s].impl = "api" THEN collector[s].max_users ELSE environ
            g == get_guest_list(env.val)
        IN  IF ~engine_ok
            THEN Finish(s, -1)
            ELSE IF ~env.set \/ ~g.ok
            THEN collector' =
                    [collector EXCEPT ![s].pc = "done", ![s].result = -1,
                                      ![s].listed = {[name |-> v, gen |-> created[v]] : v \in volumes}]
            ELSE collector' =
                    [collector EXCEPT ![s].pc = "list_containers",
                                      ![s].listed = {[name |-> v, gen |-> created[v]] : v \in volumes},
                                      ![s].guest_list = g.list]
    /\ UNCHANGED <<environ, hubconf, spawner, srcfile, tar, applied, http, allocVars, seedVars, engineVars>>

\* client.containers.list() and the used_volumes loop
CollectListContainers(s) ==
    /\ collector[s].pc = "list_containers"
    /\ \E engine_ok \in BOOLEAN :
        IF ~engine_ok
        THEN Finish(s, -1)
        ELSE collector' =
                [collector EXCEPT ![s].pc = "loop",
                                  ![s].used = UsedVolumes(containers),
                                  ![s].todo = {l.name : l \in collector[s].listed}]
    /\ UNCHANGED <<environ, hubconf, spawner, srcfile, tar, applied, http, allocVars, seedVars, engineVars>>

\* one iteration of "for volume in volumes" (the engine lists in no promised
\* order: any volume not yet visited may be the next). volume.remove(force=True)
\* removes by name. api.py catches a failed removal and goes on;
\* jupyterhub_api.py has no try inside the loop, so the failure ends the sweep
\* in the outer "return -1".
CollectLoop(s) ==
    /\ collector[s].pc = "loop"
    /\ \E v \in collector[s].todo :
        IF ~ShouldRemove(v, collector[s].used, collector[s].guest_list)
        THEN /\ collector' = [collector EXCEPT ![s].todo = @ \ {v}]
             /\ UNCHANGED engineVars
        ELSE \E ok \in RemoveResults(v) :
            LET issued == [name |-> v, ok |-> ok, hit |-> IF ok THEN Incarnation(v) ELSE 0]
            IN  IF ok
                THEN /\ volumes' = volumes \ {v}
                     /\ content' = [content EXCEPT ![v] = {}]
                     /\ collector' = [collector EXCEPT ![s].todo = @ \ {v},
                                                       ![s].calls = @ \cup {issued},
                                                       ![s].removed_count = @ + 1]
                     /\ UNCHANGED <<created, containers>>
                ELSE /\ IF collector[s].impl = "api"
                        THEN collector' = [collector EXCEPT ![s].todo = @ \ {v},
                                                            ![s].calls = @ \cup {issued}]
                        ELSE collector' = [collector EXCEPT ![s].pc = "done",
                                                            ![s].calls = @ \cup {issued},
                                                            ![s].result = -1]
                     /\ UNCHANGED engineVars
    /\ UNCHANGED <<environ, hubconf, spawner, srcfile, tar, applied, http, allocVars, seedVars>>

\* return removed_count
CollectReturn(s) ==
    /\ collector[s].pc = "loop"
    /\ collector[s].todo = {}
    /\ Finish(s, collector[s].removed_count)
    /\ UNCHANGED <<environ, hubconf, spawner, srcfile, tar, applied, http, allocVars, seedVars, engineVars>>

\* largest number of volumes the engine holds when a sweep starts
MaxVolumes == 3

\* pool sizes and the configurations get_guest_list cannot read
CollectEnv == PoolSizes \cup {Unset, EnvStr(<<"a", "b", "c">>)}

\* one sweep over an engine that holds some volumes and some containers; a
\* container's volumes exist
InitCollect ==
    /\ environ \in CollectEnv
    /\ hub = NoHub
    /\ call = NoCall
    /\ applied = NotApplied
    /\ http = [r \in Routes |-> NoResponse]
    /\ srcfile = NoFile
    /\ tar = IdleTar
    /\ hubconf = NoHubConf
    /\ spawner = IdleSpawner
    /\ alloc = [c \in Callers |-> IdleAlloc]
    /\ volumes \in {S \in SUBSET VolumeNames : Cardinality(S) <= MaxVolumes}
    /\ created = [v \in VolumeNames |-> IF v \in volumes THEN 1 ELSE 0]
    /\ content = [v \in VolumeNames |-> {}]
    /\ containers \in {C \in SUBSET PreContainers : MountedVolumes(C) \subseteq volumes}
    /\ collector = [s \in Sweeps |-> IdleSweep]
    /\ SeederIdle

NextCollect ==
    \/ CollectStart("sweep_a")
    \/ CollectListVolumes("sweep_a")
    \/ CollectListContainers("sweep_a")
    \/ CollectLoop("sweep_a")
    \/ CollectReturn("sweep_a")

SpecCollect == InitCollect /\ [][NextCollect]_vars

\* ------------------------------------------------------------- the seeder
\* substring test: sub in s
Contains(s, sub) ==
    \E i \in 1..(Len(s) - Len(sub) + 1) : SubSeq(s, i, i + Len(sub) - 1) = sub

\* os.path.basename: what follows the last '/'
Basename(path) ==
    LET slashes == {i \in 1..Len(path) : path[i] = "/"}
        last == IF slashes = {} THEN 0 ELSE CHOOSE i \in slashes : \A j \in slashes : j <= i
    IN  SubSeq(path, last + 1, Len(path))

\* <CKAN_STORAGE_PATH>/notebook/ with the default storage path '/var/lib/ckan'
STORAGE_NOTEBOOK ==
    <<"/", "v", "a", "r", "/", "l", "i", "b", "/", "c", "k", "a", "n", "/",
      "n", "o", "t", "e", "b", "o", "o", "k", "/">>

\* os.path.join(storage_path, 'notebook', notebook_name): an absolute last
\* part replaces what precedes it
get_storage_path(notebook_name) ==
    IF notebook_name # <<>> /\ notebook_name[1] = "/" THEN notebook_name
    ELSE STORAGE_NOTEBOOK \o notebook_name

\* "if '..' in notebook_name or '/' in notebook_name or '\\' in notebook_name"
IsTraversal(notebook_name) ==
    \/ Contains(notebook_name, <<".", ".">>)
    \/ Contains(notebook_name, <<"/">>)
    \/ Contains(notebook_name, <<"\\">>)

\* notebook names a request carries: none, a plain name, one that is not in
\* storage by construction, and one that climbs out of the notebook directory
PLAIN_NOTEBOOK == <<"a", ".", "i", "p", "y", "n", "b">>

OTHER_NOTEBOOK == <<"b", ".", "i", "p", "y", "n", "b">>

CLIMBING_NOTEBOOK == <<".", ".", "/", "a">>

NotebookNames == {<<>>, PLAIN_NOTEBOOK, OTHER_NOTEBOOK, CLIMBING_NOTEBOOK}

\* user names of a seeding request: none, a guest, and NESTED_USER
SeedUsers == {<<>>, GUEST \o Str(0), NESTED_USER}

\* the engine gives every container it creates an id of its own: the helper
\* of a call, and the helper of the call made again
HELPER == "helper"

HELPER_RETRY == "helper_retry"

HelperId == IF seed.retry THEN HELPER_RETRY ELSE HELPER

HelperContainer(state, volume_name) ==
    [id |-> HelperId, state |-> state, mounts |-> {VolumeMount(volume_name)}]

HelperExists == \E c \in containers : c.id \in {HELPER, HELPER_RETRY}

\* the one entry of the archive: named by the source's basename, holding the
\* bytes of the source (told apart by the path they were read from)
ArchiveEntry(src_file_path) == [name |-> Basename(src_file_path), data |-> src_file_path]

\* put_archive: the engine extracts the archive into the directory; an entry
\* replaces the file of its name
Extract(files, entry) == {f \in files : f.name # entry.name} \cup {entry}

\* the call is over: what its caller sees
SeedDone(val, exc, logged) ==
    seed' = [seed EXCEPT !.pc = "done",
                         !.result = [val |-> val, exc |-> exc, logged |-> logged]]

\* the call ends in its caller, before copy_file_to_volume
SeedRefuse(caller, username, notebook_name, val, exc, logged) ==
    seed' = [seed EXCEPT !.pc = "done", !.caller = caller, !.username = username,
                         !.notebook_name = notebook_name,
                         !.volume_name = get_volume_name(username),
                         !.src_file_path = get_storage_path(notebook_name),
                         !.result = [val |-> val, exc |-> exc, logged |-> logged]]

SeedEnter(caller, username, notebook_name) ==
    seed' = [seed EXCEPT !.pc = "image", !.caller = caller, !.username = username,
                         !.notebook_name = notebook_name,
                         !.volume_name = get_volume_name(username),
                         !.src_file_path = get_storage_path(notebook_name)]

\* api.py copy_notebook_to_container up to its call of copy_file_to_volume:
\* both arguments required, no '..', '/' or '\' in the name, docker.from_env(),
\* and the source must exist
SeedCallApi ==
    /\ seed.pc = "idle"
    /\ \E username \in SeedUsers, notebook_name \in NotebookNames, engine_ok \in BOOLEAN :
        IF username = <<>> \/ notebook_name = <<>>
        THEN SeedRefuse("api", username, notebook_name, "False", "-", "arguments required")
        ELSE IF IsTraversal(notebook_name)
        THEN SeedRefuse("api", username, notebook_name, "False", "-", "invalid notebook name")
        ELSE IF ~engine_ok
        THEN SeedRefuse("api", username, notebook_name, "False", "DockerException",
                        "error copying notebook")
        ELSE IF get_storage_path(notebook_name) \notin storage
        THEN SeedRefuse("api", username, notebook_name, "False", "-", "source file not found")
        ELSE SeedEnter("api", username, notebook_name)
    /\ UNCHANGED <<environ, hubconf, spawner, srcfile, tar, applied, http, allocVars, engineVars, collector, image, storage>>

\* the literals of the spawner's regular expression notebooks/([^/]+\.ipynb)
NOTEBOOKS_ == <<"n", "o", "t", "e", "b", "o", "o", "k", "s", "/">>

DOT_IPYNB == <<".", "i", "p", "y", "n", "b">>

\* the group of the expression matched at position i of s: after 'notebooks/'
\* the longest run of characters other than '/' that ends in '.ipynb' and has
\* at least one character before it
MatchAt(s, i) ==
    LET j == i + Len(NOTEBOOKS_)
        run == {k \in j..Len(s) : \A x \in j..k : s[x] # "/"}
        ends == {e \in run : /\ e - Len(DOT_IPYNB) >= j
                             /\ SubSeq(s, e - Len(DOT_IPYNB) + 1, e) = DOT_IPYNB}
    IN  IF j - 1 <= Len(s) /\ SubSeq(s, i, j - 1) = NOTEBOOKS_ /\ ends # {}
        THEN [found |-> TRUE,
              name |-> SubSeq(s, j, CHOOSE e \in ends : \A f \in ends : f <= e)]
        ELSE [found |-> FALSE, name |-> <<>>]

\* re.search(r'notebooks/([^/]+\.ipynb)', next_path): the leftmost match
SearchNotebook(next_path) ==
    LET hits == {i \in 1..Len(next_path) : MatchAt(next_path, i).found}
    IN  IF hits = {} THEN [found |-> FALSE, name |-> <<>>]
        ELSE MatchAt(next_path, CHOOSE i \in hits : \A h \in hits : i <= h)

\* a name with a backslash and two dots that holds no '/'
BACKSLASH_NOTEBOOK == <<".", ".", "\\", "a", ".", "i", "p", "y", "n", "b">>

\* values of the 'next' query argument of a spawn request
NextPaths ==
    {<<"/">> \o NOTEBOOKS_ \o PLAIN_NOTEBOOK,
     <<"/">> \o NOTEBOOKS_ \o OTHER_NOTEBOOK,
     <<"/">> \o NOTEBOOKS_ \o <<".", ".", "/">> \o PLAIN_NOTEBOOK,
     <<"/">> \o NOTEBOOKS_ \o BACKSLASH_NOTEBOOK,
     <<"/", "t", "r", "e", "e">>}

\* jupyterhub_config.py _seed_volume up to its call of copy_file_to_volume:
\* the failure of docker.from_env() is logged and raised
SeedVolumeCall(username, notebook_name) ==
    \E engine_ok \in BOOLEAN :
        IF ~engine_ok
        THEN SeedRefuse("spawner", username, notebook_name, "-", "DockerException",
                        "failed to seed volume")
        ELSE SeedEnter("spawner", username, notebook_name)

\* jupyterhub_config.py start() and _seed_volume up to the call of
\* copy_file_to_volume: start() seeds the volume of a guest when its regular
\* expression finds a notebook name in the 'next' argument
SeedCallSpawner ==
    /\ seed.pc = "idle"
    /\ \E username \in SeedUsers \ {<<>>, NESTED_USER}, next_path \in NextPaths :
        LET match == SearchNotebook(next_path)
        IN  /\ match.found
            /\ SeedVolumeCall(username, match.name)
    /\ UNCHANGED <<environ, hubconf, spawner, srcfile, tar, applied, http, allocVars, engineVars, collector, image, storage>>

\* POST /copy_notebook refuses the request: an argument is missing, or the
\* name holds '..', '/' or '\'; hub_api is not called
RouteCopyNotebookRefuse ==
    /\ seed.pc = "idle"
    /\ \E username \in SeedUsers, notebook_name \in NotebookNames \cup {BACKSLASH_NOTEBOOK} :
        /\ username = <<>> \/ notebook_name = <<>> \/ IsTraversal(notebook_name)
        /\ LET error == IF username = <<>> \/ notebook_name = <<>>
                        THEN "Both 'username' and 'notebook_name' are required"
                        ELSE "Invalid notebook name"
           IN  /\ SeedRefuse("route", username, notebook_name, "-", "-", error)
               /\ http' = [http EXCEPT !["copy_notebook"] = create_response(NoData, error, 400)]
    /\ UNCHANGED <<environ, hubconf, spawner, srcfile, tar, applied, allocVars, engineVars, collector, image, storage>>

\* POST /copy_notebook answers when hub_api.copy_notebook_to_container, called
\* with arguments the route let pass, has returned
RouteCopyNotebookRespond ==
    /\ seed.pc = "done"
    /\ seed.caller = "api"
    /\ seed.username # <<>> /\ seed.notebook_name # <<>> /\ ~IsTraversal(seed.notebook_name)
    /\ http["copy_notebook"] = NoResponse
    /\ http' = [http EXCEPT !["copy_notebook"] =
                  IF seed.result.val = "True"
                  THEN create_response([kind |-> "copied", user |-> seed.username, count |-> 0],
                                       "", 200)
                  ELSE create_response(NoData, "Failed to copy notebook", 500)]
    /\ UNCHANGED <<environ, hubconf, spawner, srcfile, tar, applied, allocVars, engineVars, collector, seedVars>>

\* jupyterhub_api.py copy_notebook_to_container up to its image pull: nothing
\* is validated
SeedCallLegacy ==
    /\ seed.pc = "idle"
    /\ \E username \in SeedUsers \ {<<>>}, notebook_name \in NotebookNames,
          engine_ok \in BOOLEAN :
        IF ~engine_ok
        THEN SeedRefuse("legacy", username, notebook_name, "False", "DockerException",
                        "error during notebook copy")
        ELSE SeedEnter("legacy", username, notebook_name)
    /\ UNCHANGED <<environ, hubconf, spawner, srcfile, tar, applied, http, allocVars, engineVars, collector, image, storage>>

\* an exception outside the try/finally leaves copy_file_to_volume at once
SeedRaise(step, exc) ==
    seed' = [seed EXCEPT !.pc = "return", !.steps[step] = "failed",
                         !.out = [kind |-> "raise", exc |-> exc]]

\* an exception inside the try goes through the finally clause
SeedRaiseInTry(step, exc) ==
    seed' = [seed EXCEPT !.pc = "finally", !.steps[step] = "failed",
                         !.pending = [kind |-> "raise", exc |-> exc]]

\* utils.py: client.images.get, and client.images.pull on ImageNotFound;
\* jupyterhub_api.py: client.images.pull always
SeedEnsureImage ==
    /\ seed.pc = "image"
    /\ \E ok \in BOOLEAN :
        LET pull == seed.caller = "legacy" \/ ~image
        IN  /\ IF ok
               THEN /\ seed' = [seed EXCEPT !.pc = "create", !.steps.image = "ok",
                                            !.pulls = @ + (IF pull THEN 1 ELSE 0)]
                    /\ image' = TRUE
               ELSE /\ seed' = [seed EXCEPT !.pc = "return", !.steps.image = "failed",
                                            !.pulls = @ + (IF pull THEN 1 ELSE 0),
                                            !.out = [kind |-> "raise",
                                                     exc |-> IF pull THEN "ImagePullFailed"
                                                             ELSE "APIError"]]
                    /\ UNCHANGED image
    /\ UNCHANGED <<environ, hubconf, spawner, srcfile, tar, applied, http, allocVars, engineVars, collector, storage>>

\* client.containers.create with the volume mounted: the engine creates a
\* named volume that does not exist
SeedCreate ==
    /\ seed.pc = "create"
    /\ \E ok \in BOOLEAN :
        IF ok
        THEN /\ seed' = [seed EXCEPT !.pc = "start", !.steps.create = "ok"]
             /\ containers' = containers \cup {HelperContainer("created", seed.volume_name)}
             /\ volumes' = volumes \cup {seed.volume_name}
             /\ created' = [created EXCEPT ![seed.volume_name] =
                               IF seed.volume_name \in volumes THEN @ ELSE @ + 1]
             /\ UNCHANGED content
        ELSE /\ SeedRaise("create", "ContainerCreateFailed")
             /\ UNCHANGED engineVars
    /\ UNCHANGED <<environ, hubconf, spawner, srcfile, tar, applied, http, allocVars, collector, image, storage>>

\* init.start(), before the try
SeedStart ==
    /\ seed.pc = "start"
    /\ \E ok \in BOOLEAN :
        IF ok
        THEN /\ seed' = [seed EXCEPT !.pc = "mkdir", !.steps.start = "ok"]
             /\ containers' = (containers \ {HelperContainer("created", seed.volume_name)})
                                \cup {HelperContainer("running", seed.volume_name)}
             /\ UNCHANGED <<volumes, created, content>>
        ELSE /\ SeedRaise("start", "ContainerStartFailed")
             /\ UNCHANGED engineVars
    /\ UNCHANGED <<environ, hubconf, spawner, srcfile, tar, applied, http, allocVars, collector, image, storage>>

\* init.exec_run("mkdir -p ..."): the result (exit code, output) is dropped;
\* only an engine error raises
SeedMkdir ==
    /\ seed.pc = "mkdir"
    /\ \E r \in {"exit 0", "exit 1", "raise"} :
        CASE r = "exit 0" -> seed' = [seed EXCEPT !.pc = "tar", !.steps.mkdir = "ok"]
          [] r = "exit 1" -> seed' = [seed EXCEPT !.pc = "tar", !.steps.mkdir = "failed"]
          [] OTHER -> SeedRaiseInTry("mkdir", "APIError")
    /\ UNCHANGED <<environ, hubconf, spawner, srcfile, tar, applied, http, allocVars, engineVars, collector, image, storage>>

\* create_tar_archive (utils.py) and the inline archive of jupyterhub_api.py:
\* FileNotFoundError when the source does not exist
SeedBuildArchive ==
    /\ seed.pc = "tar"
    /\ IF seed.src_file_path \in storage
       THEN seed' = [seed EXCEPT !.pc = "put", !.steps.build = "ok"]
       ELSE SeedRaiseInTry("build", "FileNotFoundError")
    /\ UNCHANGED <<environ, hubconf, spawner, srcfile, tar, applied, http, allocVars, engineVars, collector, image, storage>>

\* init.put_archive(target_dir, archive): the entry, named by the source's
\* basename, is written into the volume; then "return True" is pending
SeedPutArchive ==
    /\ seed.pc = "put"
    /\ \E ok \in BOOLEAN :
        IF ok
        THEN /\ seed' = [seed EXCEPT !.pc = "finally", !.steps.write = "ok",
                                     !.pending = [kind |-> "return", exc |-> "-"]]
             /\ content' = [content EXCEPT ![seed.volume_name] =
                               Extract(@, ArchiveEntry(seed.src_file_path))]
             /\ UNCHANGED <<volumes, created, containers>>
        ELSE /\ SeedRaiseInTry("write", "ArchiveWriteFailed")
             /\ UNCHANGED engineVars
    /\ UNCHANGED <<environ, hubconf, spawner, srcfile, tar, applied, http, allocVars, collector, image, storage>>

\* finally: init.remove(force=True). An exception of the removal replaces the
\* pending return or exception.
SeedFinally ==
    /\ seed.pc = "finally"
    /\ \E ok \in BOOLEAN :
        IF ok
        THEN /\ seed' = [seed EXCEPT !.pc = "return", !.steps.remove = "ok",
                                     !.out = seed.pending]
             /\ containers' = {c \in containers : c.id # HelperId}
             /\ UNCHANGED <<volumes, created, content>>
        ELSE /\ seed' = [seed EXCEPT !.pc = "return", !.steps.remove = "failed",
                                     !.out = [kind |-> "raise", exc |-> "RemoveFailed"]]
             /\ UNCHANGED engineVars
    /\ UNCHANGED <<environ, hubconf, spawner, srcfile, tar, applied, http, allocVars, collector, image, storage>>

\* back in the caller: copy_notebook_to_container turns any exception into
\* False, _seed_volume logs and raises it again
SeedReturn ==
    /\ seed.pc = "return"
    /\ IF seed.caller = "spawner"
       THEN IF seed.out.kind = "raise"
            THEN SeedDone("-", seed.out.exc, "failed to seed volume")
            ELSE SeedDone("None", "-", "seeded volume")
       ELSE IF seed.out.kind = "raise"
            THEN SeedDone("False", seed.out.exc, "error copying notebook")
            ELSE SeedDone("True", "-", "notebook copied")
    /\ UNCHANGED <<environ, hubconf, spawner, srcfile, tar, applied, http, allocVars, engineVars, collector, image, storage>>

\* the same call made again, with the same arguments: copy_file_to_volume is
\* entered a second time
SeedRetry ==
    /\ seed.pc = "done"
    /\ ~seed.retry
    /\ seed.steps.image # "-"
    /\ seed' = [seed EXCEPT !.pc = "image", !.retry = TRUE, !.steps = NoSteps,
                            !.pending = [kind |-> "-", exc |-> "-"],
                            !.out = [kind |-> "-", exc |-> "-"],
                            !.result = [val |-> "-", exc |-> "-", logged |-> "-"],
                            !.first = [files |-> content[seed.volume_name],
                                       helper |-> HelperExists,
                                       val |-> seed.result.val]]
    /\ UNCHANGED <<environ, hubconf, spawner, srcfile, tar, applied, http, allocVars, engineVars, collector, image, storage>>

SeedSteps ==
    \/ SeedEnsureImage
    \/ SeedCreate
    \/ SeedStart
    \/ SeedMkdir
    \/ SeedBuildArchive
    \/ SeedPutArchive
    \/ SeedFinally
    \/ SeedReturn

\* files that may exist on the host
SourcePaths == {get_storage_path(PLAIN_NOTEBOOK), get_storage_path(CLIMBING_NOTEBOOK)}

\* one seeding call against an engine with or without the helper image and
\* with or without the guest's volume
\* a file an earlier seeding left in a volume, under the plain notebook's name
OLD_FILE == [name |-> PLAIN_NOTEBOOK, data |-> <<"o", "l", "d">>]

InitSeed ==
    /\ environ = EnvStr(Str(MaxPool))
    /\ hub = NoHub
    /\ call = NoCall
    /\ applied = NotApplied
    /\ http = [r \in Routes |-> NoResponse]
    /\ srcfile = NoFile
    /\ tar = IdleTar
    /\ hubconf = NoHubConf
    /\ spawner = IdleSpawner
    /\ alloc = [c \in Callers |-> IdleAlloc]
    /\ volumes \in {{}, {get_volume_name(GUEST \o Str(0))}}
    /\ created = [v \in VolumeNames |-> IF v \in volumes THEN 1 ELSE 0]
    /\ \E files \in {{}, {OLD_FILE}} :
          content = [v \in VolumeNames |-> IF v \in volumes THEN files ELSE {}]
    /\ containers = {}
    /\ collector = [s \in Sweeps |-> IdleSweep]
    /\ image \in BOOLEAN
    /\ storage \in SUBSET SourcePaths
    /\ seed = IdleSeed

NextSeed ==
    \/ SeedCallApi
    \/ SeedCallSpawner
    \/ SeedCallLegacy
    \/ SeedSteps
    \/ SeedRetry
    \/ RouteCopyNotebookRefuse
    \/ RouteCopyNotebookRespond

SpecSeed == InitSeed /\ [][NextSeed]_vars

\* ------------------------------------------------- the operations together
\* Two sweeps and one seeding call share the engine. Every engine call is one
\* step; the steps of the three calls interleave freely.
Init ==
    /\ environ = EnvStr(Str(MaxPool))
    /\ hub = NoHub
    /\ call = NoCall
    /\ applied = NotApplied
    /\ http = [r \in Routes |-> NoResponse]
    /\ srcfile = NoFile
    /\ tar = IdleTar
    /\ hubconf = NoHubConf
    /\ spawner = IdleSpawner
    /\ alloc = [c \in Callers |-> IdleAlloc]
    /\ volumes \in {{}, {get_volume_name(GUEST \o Str(0))}}
    /\ created = [v \in VolumeNames |-> IF v \in volumes THEN 1 ELSE 0]
    /\ content = [v \in VolumeNames |-> {}]
    /\ containers = {}
    /\ collector = [s \in Sweeps |-> IdleSweep]
    /\ image = TRUE
    /\ storage = {get_storage_path(PLAIN_NOTEBOOK)}
    /\ seed = IdleSeed

Collect(s) ==
    \/ CollectStart(s)
    \/ CollectListVolumes(s)
    \/ CollectListContainers(s)
    \/ CollectLoop(s)
    \/ CollectReturn(s)

Next ==
    \/ \E s \in Sweeps : Collect(s)
    \/ SeedCallApi
    \/ SeedCallSpawner
    \/ SeedSteps

Spec == Init /\ [][Next]_vars

\* ------------------------------------------------- the periodic collector
\* The volume-cleaner service: "while true; do sleep 60; curl -X POST
\* <api>/cleanup_volumes; done". The route runs cleanup_unused_volumes of
\* api.py; the next call starts when the previous one has returned.
CLEANER == "sweep_a"

CleanerStart ==
    /\ CollectStart(CLEANER)
    /\ collector'[CLEANER].impl = "api"

\* the call has returned; after the sleep the loop posts again
CleanerSleep ==
    /\ collector[CLEANER].pc = "done"
    /\ collector' = [collector EXCEPT ![CLEANER] = IdleSweep]
    /\ UNCHANGED <<environ, hubconf, spawner, srcfile, tar, applied, http, allocVars, seedVars, engineVars>>

\* the platform stops and removes a container (DockerSpawner.stop and
\* DockerSpawner.remove are set, servers shut down on logout)
ContainerRemoved ==
    /\ \E c \in containers : containers' = containers \ {c}
    /\ UNCHANGED <<environ, hubconf, spawner, srcfile, tar, applied, http, allocVars, seedVars, collector, volumes, created, content>>

GuestVolumes == {get_volume_name(u) : u \in GuestNames}

\* guest volumes and the containers that reference them
InitHeal ==
    /\ environ \in PoolSizes
    /\ hub = NoHub
    /\ call = NoCall
    /\ applied = NotApplied
    /\ http = [r \in Routes |-> NoResponse]
    /\ srcfile = NoFile
    /\ tar = IdleTar
    /\ hubconf = NoHubConf
    /\ spawner = IdleSpawner
    /\ alloc = [c \in Callers |-> IdleAlloc]
    /\ volumes \in {S \in SUBSET GuestVolumes : Cardinality(S) <= MaxVolumes}
    /\ created = [v \in VolumeNames |-> IF v \in volumes THEN 1 ELSE 0]
    /\ content = [v \in VolumeNames |-> {}]
    /\ containers \in {C \in SUBSET PreContainers : MountedVolumes(C) \subseteq volumes}
    /\ collector = [s \in Sweeps |-> IdleSweep]
    /\ SeederIdle

NextHeal ==
    \/ CleanerStart
    \/ CollectListVolumes(CLEANER)
    \/ CollectListContainers(CLEANER)
    \/ CollectLoop(CLEANER)
    \/ CollectReturn(CLEANER)
    \/ CleanerSleep
    \/ ContainerRemoved

\* the engine answers the volume listing, the container listing
VolumeListingSucceeds ==
    CollectListVolumes(CLEANER) /\ collector'[CLEANER].pc # "done"

ContainerListingSucceeds ==
    CollectListContainers(CLEANER) /\ collector'[CLEANER].pc # "done"

\* the engine's removal of volume v succeeds
RemovalSucceeds(v) == CollectLoop(CLEANER) /\ v \in volumes /\ v \notin volumes'

\* the cleaner keeps running, and an engine call that can succeed again and
\* again does succeed at some time
FairHeal ==
    /\ WF_vars(CleanerStart)
    /\ WF_vars(CleanerSleep)
    /\ WF_vars(CollectLoop(CLEANER))
    /\ WF_vars(CollectReturn(CLEANER))
    /\ WF_vars(CollectListVolumes(CLEANER))
    /\ WF_vars(CollectListContainers(CLEANER))
    /\ SF_vars(VolumeListingSucceeds)
    /\ SF_vars(ContainerListingSucceeds)
    /\ \A v \in GuestVolumes : SF_vars(RemovalSucceeds(v))

SpecHeal == InitHeal /\ [][NextHeal]_vars /\ FairHeal

\* ------------------------------------------------- concurrent allocation
\* get_free_user statement by statement, for callers that run at once, and
\* the platform that starts the server of a chosen guest some time later.
AllocDone(c, out) == alloc' = [alloc EXCEPT ![c].pc = "done", ![c].out = out]

\* os.getenv and get_guest_list(max_users)
AllocStart(c) ==
    /\ alloc[c].pc = "idle"
    /\ \E impl \in Impls :
        LET g == get_guest_list(environ.val)
        IN  IF impl = "api" /\ ~Truthy(environ)
            THEN alloc' = [alloc EXCEPT ![c].pc = "done", ![c].impl = impl, ![c].out = NoUser]
            ELSE IF ~environ.set
            THEN alloc' = [alloc EXCEPT ![c].pc = "done", ![c].impl = impl,
                                        ![c].out = Raised("TypeError")]
            ELSE IF ~g.ok
            THEN alloc' = [alloc EXCEPT ![c].pc = "done", ![c].impl = impl,
                                        ![c].out = Raised("ValueError")]
            ELSE alloc' = [alloc EXCEPT ![c].pc = "query", ![c].impl = impl,
                                        ![c].guest_list = g.list]
    /\ UNCHANGED <<environ, hubconf, spawner, srcfile, tar, applied, http, hub, call, engineVars, collector, seedVars>>

\* running_list = get_running_users()
AllocQuery(c) ==
    /\ alloc[c].pc = "query"
    /\ LET r == get_running_users(alloc[c].impl, hub)
       IN  IF r.kind = "return"
           THEN alloc' = [alloc EXCEPT ![c].pc = "pick", ![c].running_list = r.names]
           ELSE AllocDone(c, r)
    /\ UNCHANGED <<environ, hubconf, spawner, srcfile, tar, applied, http, hub, call, engineVars, collector, seedVars>>

\* Choices with a reservation: guests other callers were given are left out
Choices_Reserving(c) ==
    PickFree(alloc[c].guest_list,
             alloc[c].running_list \cup
                {alloc[d].out.user : d \in {e \in Callers \ {c} :
                                              alloc[e].pc = "done" /\ alloc[e].out.kind = "user"}})

\* what the caller may be returned, given its own guest_list and running_list
Choices(c) == PickFree(alloc[c].guest_list, alloc[c].running_list)

\* free_users = set(guest_list) - set(running_list); return free_users.pop()
\* or None
AllocPick(c) ==
    /\ alloc[c].pc = "pick"
    /\ \E out \in Choices(c) : AllocDone(c, out)
    /\ UNCHANGED <<environ, hubconf, spawner, srcfile, tar, applied, http, hub, call, engineVars, collector, seedVars>>

\* guests a finished call returned
Chosen == {alloc[c].out.user : c \in {d \in Callers : alloc[d].pc = "done" /\ alloc[d].out.kind = "user"}}

\* names the hub lists with a running server
LiveServers == {hub.body.items[i].name : i \in {j \in DOMAIN hub.body.items : hub.body.items[j].server}}

\* the platform starts the server of a chosen guest: from now on the hub
\* lists the guest with a server
PlatformStarts ==
    /\ \E u \in Chosen \ LiveServers :
        hub' = [hub EXCEPT !.body.items =
                    Append(@, [dict |-> TRUE, has_name |-> TRUE, name |-> u, server |-> TRUE])]
    /\ UNCHANGED <<environ, hubconf, spawner, srcfile, tar, applied, http, call, alloc, engineVars, collector, seedVars>>

\* the hub answers with a listing of guests, some of them running
InitRace ==
    /\ environ \in PoolSizes
    /\ hub \in {h \in HubResponses :
                  /\ h.transport = "ok" /\ h.status = 200 /\ h.body.json = "list"
                  /\ \A i \in DOMAIN h.body.items :
                        h.body.items[i].dict /\ h.body.items[i].has_name
                  /\ \A i, j \in DOMAIN h.body.items :
                        h.body.items[i].name = h.body.items[j].name => i = j}
    /\ call = NoCall
    /\ applied = NotApplied
    /\ http = [r \in Routes |-> NoResponse]
    /\ srcfile = NoFile
    /\ tar = IdleTar
    /\ hubconf = NoHubConf
    /\ spawner = IdleSpawner
    /\ alloc = [c \in Callers |-> IdleAlloc]
    /\ EngineEmpty
    /\ collector = [s \in Sweeps |-> IdleSweep]
    /\ SeederIdle

NextRace ==
    \/ \E c \in Callers : AllocStart(c) \/ AllocQuery(c) \/ AllocPick(c)
    \/ PlatformStarts

SpecRace == InitRace /\ [][NextRace]_vars

\* ------------------------------------------------------- the enumerator
\* get_guest_list called on its own. Its argument is what
\* os.getenv('CKAN_JUPYTERHUB_USER') gives: None, or a str; the strs here are
\* those of at most MaxArgLen characters over the digits 0..MaxPool, '-' and
\* 'a'.
MaxArgLen == 2

ArgChars == {DigitChars[i + 1] : i \in 0..MaxPool} \cup {"-", "a"}

ArgValues == {Unset} \cup {EnvStr(s) : s \in SeqsUpTo(ArgChars, MaxArgLen)}

\* get_guest_list(n): int(None) raises TypeError, int of a str that is no
\* integer literal raises ValueError, and range(0, int(n)) is empty for
\* int(n) <= 0
GuestListCall(e) ==
    IF ~e.set THEN [ok |-> FALSE, exc |-> "TypeError", list |-> <<>>]
    ELSE LET g == get_guest_list(e.val)
         IN  IF g.ok THEN [ok |-> TRUE, exc |-> "-", list |-> g.list]
             ELSE [ok |-> FALSE, exc |-> "ValueError", list |-> <<>>]

\* largest number of calls made with one argument
MaxCalls == 2

\* one call of get_guest_list, of either copy (f"guest{i}" in utils.py,
\* "guest" + str(i) in jupyterhub_api.py), with the configured value
GetGuestList ==
    /\ applied.calls < MaxCalls
    /\ \E impl \in Impls :
        LET r == GuestListCall(environ)
        IN  applied' = [fn |-> "get_guest_list", impl |-> impl, arg |-> environ,
                        ok |-> r.ok, exc |-> r.exc, list |-> r.list,
                        calls |-> applied.calls + 1,
                        first |-> IF applied.calls = 0 THEN r.list ELSE applied.first]
    /\ UNCHANGED <<environ, hubconf, spawner, srcfile, tar, http, allocVars, engineVars, collector, seedVars>>

InitEnum ==
    /\ environ \in ArgValues
    /\ hub = NoHub
    /\ call = NoCall
    /\ applied = NotApplied
    /\ http = [r \in Routes |-> NoResponse]
    /\ srcfile = NoFile
    /\ tar = IdleTar
    /\ hubconf = NoHubConf
    /\ spawner = IdleSpawner
    /\ alloc = [c \in Callers |-> IdleAlloc]
    /\ EngineEmpty
    /\ collector = [s \in Sweeps |-> IdleSweep]
    /\ SeederIdle

NextEnum == GetGuestList

SpecEnum == InitEnum /\ [][NextEnum]_vars

\* ---------------------------------------------------------------- routes
\* GET /get_user on the outcome of hub_api.get_free_user(): 200 with the
\* username, 503 when it is None, 500 when it raised
get_user(out) ==
    IF out.kind = "user"
    THEN create_response([kind |-> "username", user |-> out.user, count |-> 0], "", 200)
    ELSE IF out.kind = "none"
    THEN create_response(NoData, "No available guest users", 503)
    ELSE create_response(NoData, out.exc, 500)

\* cleanup_volumes testing the count for truth ("if removed_count:")
cleanup_volumes_Truthy(removed_count) ==
    IF removed_count > 0
    THEN create_response([kind |-> "removed_count", user |-> <<>>, count |-> removed_count],
                         "", 200)
    ELSE create_response(NoData, "Volume cleanup failed", 500)

\* POST /cleanup_volumes on the result of hub_api.cleanup_unused_volumes()
cleanup_volumes(removed_count) ==
    IF removed_count >= 0
    THEN create_response([kind |-> "removed_count", user |-> <<>>, count |-> removed_count],
                         "", 200)
    ELSE create_response(NoData, "Volume cleanup failed", 500)

\* one request of GET /get_user
RouteGetUser ==
    /\ \E out \in api_get_free_user(environ, hub) :
        /\ call' = [op |-> "get_free_user", impl |-> "api", out |-> out]
        /\ http' = [http EXCEPT !["get_user"] = get_user(out)]
    /\ UNCHANGED <<environ, hubconf, spawner, srcfile, tar, applied, hub, alloc, engineVars, collector, seedVars>>

\* POST /cleanup_volumes answers when cleanup_unused_volumes has returned
RouteCleanupVolumes ==
    /\ collector[CLEANER].pc = "done"
    /\ collector[CLEANER].impl = "api"
    /\ collector' = [collector EXCEPT ![CLEANER].pc = "responded"]
    /\ http' = [http EXCEPT !["cleanup_volumes"] = cleanup_volumes(collector[CLEANER].result)]
    /\ UNCHANGED <<environ, hubconf, spawner, srcfile, tar, applied, allocVars, engineVars, seedVars>>

\* the hub lists the first k guests, each with a running server
BusyListing(k) ==
    [transport |-> "ok", status |-> 200,
     body |-> [json |-> "list",
               items |-> [i \in 1..k |-> [dict |-> TRUE, has_name |-> TRUE,
                                          name |-> GUEST \o Str(i - 1), server |-> TRUE]]]]

\* a hub that fails
HubDown == [transport |-> "ok", status |-> 500, body |-> [json |-> "invalid", items |-> <<>>]]

InitRoutes ==
    /\ environ \in PoolSizes \cup {Unset}
    /\ hub \in {BusyListing(k) : k \in 0..MaxPool} \cup {HubDown}
    /\ call = NoCall
    /\ applied = NotApplied
    /\ http = [r \in Routes |-> NoResponse]
    /\ srcfile = NoFile
    /\ tar = IdleTar
    /\ hubconf = NoHubConf
    /\ spawner = IdleSpawner
    /\ alloc = [c \in Callers |-> IdleAlloc]
    /\ volumes \in {S \in SUBSET GuestVolumes : Cardinality(S) <= MaxVolumes}
    /\ created = [v \in VolumeNames |-> IF v \in volumes THEN 1 ELSE 0]
    /\ content = [v \in VolumeNames |-> {}]
    /\ containers \in {C \in SUBSET PreContainers : MountedVolumes(C) \subseteq volumes}
    /\ collector = [s \in Sweeps |-> IdleSweep]
    /\ SeederIdle

NextRoutes ==
    \/ RouteGetUser
    \/ CleanerStart
    \/ CollectListVolumes(CLEANER)
    \/ CollectListContainers(CLEANER)
    \/ CollectLoop(CLEANER)
    \/ CollectReturn(CLEANER)
    \/ RouteCleanupVolumes

SpecRoutes == InitRoutes /\ [][NextRoutes]_vars

\* --------------------------------------------------------------- archive
\* the longest content of a source file
MaxContent == 3

\* the latest modification time of a source file
MaxMtime == 2

\* the block size of the archive (tarfile.BLOCKSIZE, scaled down)
BLOCKSIZE == 2

\* "info.mode = 0o644"
MODE_0644 == 420

\* the zero byte, with which the archive pads
NUL == "0"

Bytes == {NUL, "x"}

\* the contents of a file, the empty one included
Contents == UNION {[1..n -> Bytes] : n \in 0..MaxContent}

\* values of src_file_path: under the notebook directory, through '..', and
\* relative without a directory
TarPaths ==
    {get_storage_path(PLAIN_NOTEBOOK), get_storage_path(BACKSLASH_NOTEBOOK),
     get_storage_path(CLIMBING_NOTEBOOK), PLAIN_NOTEBOOK}

\* what the host may hold at a path: nothing, or a file
Files ==
    {[path |-> p, exists |-> FALSE, data |-> <<>>, mtime |-> 0] : p \in TarPaths}
    \cup {[path |-> p, exists |-> TRUE, data |-> d, mtime |-> t] :
            p \in TarPaths, d \in Contents, t \in 1..MaxMtime}

NoInfo == [name |-> <<>>, size |-> 0, mode |-> 0, mtime |-> 0]

\* the blocks of an archive: a member's header, a block of its data, and the
\* zero block that ends the archive
HeaderBlock(info) == [kind |-> "header", info |-> info, bytes |-> <<>>]

DataBlock(bytes) == [kind |-> "data", info |-> NoInfo, bytes |-> bytes]

ZeroBlock == [kind |-> "zero", info |-> NoInfo, bytes |-> <<>>]

\* a TarInfo whose size is left at its default, 0
TarInfo_SizeUnset(filename, data, mtime) ==
    [name |-> filename, size |-> 0, mode |-> MODE_0644, mtime |-> mtime]

\* info = tarfile.TarInfo(name=filename); info.size = len(data);
\* info.mode = 0o644; info.mtime = os.path.getmtime(src_file_path)
TarInfo(filename, data, mtime) ==
    [name |-> filename, size |-> Len(data), mode |-> MODE_0644, mtime |-> mtime]

\* the last block of a member's data is filled with zero bytes
Pad(bytes) == [i \in 1..BLOCKSIZE |-> IF i <= Len(bytes) THEN bytes[i] ELSE NUL]

RECURSIVE DataBlocks(_)
DataBlocks(bytes) ==
    IF bytes = <<>> THEN <<>>
    ELSE IF Len(bytes) <= BLOCKSIZE THEN <<DataBlock(Pad(bytes))>>
    ELSE <<DataBlock(SubSeq(bytes, 1, BLOCKSIZE))>>
         \o DataBlocks(SubSeq(bytes, BLOCKSIZE + 1, Len(bytes)))

\* writing blocks to the stream leaves its position after them
Write(buf, blocks) ==
    [blocks |-> buf.blocks \o blocks,
     pos |-> (Len(buf.blocks) + Len(blocks)) * BLOCKSIZE]

\* tar.addfile(info, io.BytesIO(data)): the header, then info.size bytes of
\* the data in padded blocks
addfile(buf, info, data) ==
    Write(buf, <<HeaderBlock(info)>> \o DataBlocks(SubSeq(data, 1, info.size)))

\* leaving "with tarfile.open(fileobj=buf, mode='w')" closes the archive: two
\* zero blocks end it
close(buf) == Write(buf, <<ZeroBlock, ZeroBlock>>)

\* buf.seek(0)
seek(buf, pos) == [buf EXCEPT !.pos = pos]

\* create_tar_archive(src_file_path) on the host's file at that path
create_tar_archive(src_file_path) ==
    IF ~srcfile.exists
    THEN [file |-> srcfile, exc |-> "FileNotFoundError", buf |-> EmptyBuf]
    ELSE LET filename == Basename(src_file_path)
             data == srcfile.data
             info == TarInfo(filename, data, srcfile.mtime)
         IN  [file |-> srcfile, exc |-> "-",
              buf |-> seek(close(addfile(EmptyBuf, info, data)), 0)]

\* the first call
TarBuild ==
    /\ tar.pc = "idle"
    /\ tar' = [tar EXCEPT !.pc = "once", !.first = create_tar_archive(srcfile.path)]
    /\ UNCHANGED <<environ, hubconf, spawner, srcfile, applied, http, allocVars, engineVars, collector, seedVars>>

\* between the calls the host's file may be written, touched, created or
\* deleted
FileWritten ==
    /\ tar.pc = "once"
    /\ \E f \in Files :
        /\ f.path = srcfile.path
        /\ f # srcfile
        /\ srcfile' = f
    /\ UNCHANGED <<environ, hubconf, spawner, tar, applied, http, allocVars, engineVars, collector, seedVars>>

\* the second call, on the same path
TarBuildAgain ==
    /\ tar.pc = "once"
    /\ tar' = [tar EXCEPT !.pc = "twice", !.second = create_tar_archive(srcfile.path)]
    /\ UNCHANGED <<environ, hubconf, spawner, srcfile, applied, http, allocVars, engineVars, collector, seedVars>>

InitTar ==
    /\ environ = Unset
    /\ hub = NoHub
    /\ call = NoCall
    /\ applied = NotApplied
    /\ http = [r \in Routes |-> NoResponse]
    /\ srcfile \in Files
    /\ tar = IdleTar
    /\ hubconf = NoHubConf
    /\ spawner = IdleSpawner
    /\ alloc = [c \in Callers |-> IdleAlloc]
    /\ EngineEmpty
    /\ collector = [s \in Sweeps |-> IdleSweep]
    /\ SeederIdle

NextTar == TarBuild \/ FileWritten \/ TarBuildAgain

SpecTar == InitTar /\ [][NextTar]_vars

\* ------------------------------------------------------------ the spawner
\* "cpu_period": 100000
CPU_PERIOD == 100000

\* "cpu_quota": int(cpu_percentage) * 1000
QUOTA_PER_PERCENT == 1000

\* os.getenv('CKAN_JUPYTERHUB_PERCENTAGE_CPU', '100')
DEFAULT_PERCENTAGE == <<"1", "0", "0">>

\* values of CKAN_JUPYTERHUB_PERCENTAGE_CPU in the hub's environment
Percentages == {Unset, EnvStr(<<"5", "0">>), EnvStr(<<"a", "b", "c">>)}

\* values of CKAN_JUPYTERHUB_USER the hub can be started with
HubPools == {Unset, EnvStr(Str(1)), EnvStr(Str(MaxPool))}

\* users the hub spawns for: a guest of every pool, the first name past every
\* pool, and a name that is no guest name
SpawnNames == {GUEST \o Str(0), GUEST \o Str(MaxPool), ALICE}

\* c.Authenticator.allowed_users of jupyterhub_config.py
allowed_users(max_users) ==
    IF Truthy(max_users) THEN Range(get_guest_list(max_users.val).list) ELSE {}

\* the hub process after it loaded jupyterhub_config.py
HubConf(max_users, percentage) ==
    [environ |-> max_users, percentage |-> percentage,
     allowed_users |-> allowed_users(max_users)]

\* GuestDockerSpawner.__init__ for a user and the request that asks for the
\* spawn: user_list from the hub's environment
Construct(name, next_path) ==
    LET max_users == hubconf.environ
        r == get_guest_list(max_users.val)
    IN  IF Truthy(max_users) /\ ~r.ok
        THEN spawner' = [IdleSpawner EXCEPT !.pc = "done", !.name = name,
                                            !.next_path = next_path, !.out = "ValueError"]
        ELSE spawner' = [IdleSpawner EXCEPT !.pc = "constructed", !.name = name,
                            !.next_path = next_path,
                            !.user_list = IF Truthy(max_users) THEN r.list ELSE <<>>]

\* a spawn is asked for; the request carries a 'next' argument or none
SpawnerConstruct ==
    /\ spawner.pc = "idle"
    /\ \E name \in SpawnNames, next_path \in NextPaths \cup {<<>>} :
        Construct(name, next_path)
    /\ UNCHANGED <<environ, hubconf, srcfile, tar, applied, http, allocVars, engineVars, collector, seedVars>>

\* the volume of a guest under the prefix of the other users
GuestVolume_UserPrefix(name) == [name |-> JUPYTERHUB_PREFIX \o USER_ \o name, mode |-> "rw"]

\* self.volumes[...] of a guest and of any other user
GuestVolume(name) == [name |-> get_volume_name(name), mode |-> "rw"]

UserVolume(name) == [name |-> JUPYTERHUB_PREFIX \o USER_ \o name, mode |-> "ro"]

\* start() up to "Copy notebook if specified": the volume, the limits and the
\* notebook name of a guest, the read-only volume of any other user
StartSetup ==
    /\ spawner.pc = "constructed"
    /\ IF spawner.name \in Range(spawner.user_list)
       THEN LET cpu_percentage == IF hubconf.percentage.set THEN hubconf.percentage.val
                                  ELSE DEFAULT_PERCENTAGE
                quota == IntOf(cpu_percentage)
                match == SearchNotebook(spawner.next_path)
            IN  IF ~quota.ok
                THEN spawner' = [spawner EXCEPT !.pc = "done", !.out = "ValueError",
                                    !.volumes = @ \cup {GuestVolume(spawner.name)}]
                ELSE spawner' = [spawner EXCEPT
                                    !.pc = IF match.found THEN "seed" ELSE "start",
                                    !.volumes = @ \cup {GuestVolume(spawner.name)},
                                    !.extra_host_config =
                                        [set |-> TRUE, cpu_period |-> CPU_PERIOD,
                                         cpu_quota |-> quota.val * QUOTA_PER_PERCENT],
                                    !.notebook_name = match.name]
       ELSE spawner' = [spawner EXCEPT !.pc = "start",
                                       !.volumes = @ \cup {UserVolume(spawner.name)}]
    /\ UNCHANGED <<environ, hubconf, srcfile, tar, applied, http, allocVars, engineVars, collector, seedVars>>

\* "await self._seed_volume(volume_name, notebook_name)"
StartSeedVolume ==
    /\ spawner.pc = "seed"
    /\ seed.pc = "idle"
    /\ SeedVolumeCall(spawner.name, spawner.notebook_name)
    /\ spawner' = [spawner EXCEPT !.pc = "seeding"]
    /\ UNCHANGED <<environ, hubconf, srcfile, tar, applied, http, allocVars, engineVars, collector, image, storage>>

\* StartSeedReturn without the "except Exception" of start(): the exception of
\* _seed_volume leaves start()
StartSeedReturn_Propagates ==
    /\ spawner.pc = "seeding"
    /\ seed.pc = "done"
    /\ spawner' = [spawner EXCEPT
                      !.pc = IF seed.result.exc = "-" THEN "start" ELSE "done",
                      !.seeding = IF seed.result.exc = "-" THEN "ok" ELSE "failed",
                      !.out = IF seed.result.exc = "-" THEN "-" ELSE "raise",
                      !.logged = IF seed.result.exc = "-" THEN "Successfully copied notebook"
                                 ELSE "-"]
    /\ UNCHANGED <<environ, hubconf, srcfile, tar, applied, http, allocVars, engineVars, collector, seedVars>>

\* _seed_volume is over: its exception is caught and logged ("Continue
\* anyway")
StartSeedReturn ==
    /\ spawner.pc = "seeding"
    /\ seed.pc = "done"
    /\ spawner' = [spawner EXCEPT
                      !.pc = "start",
                      !.seeding = IF seed.result.exc = "-" THEN "ok" ELSE "failed",
                      !.logged = IF seed.result.exc = "-" THEN "Successfully copied notebook"
                                 ELSE "Failed to copy notebook"]
    /\ UNCHANGED <<environ, hubconf, srcfile, tar, applied, http, allocVars, engineVars, collector, seedVars>>

\* the notebook server of the spawn
SERVER == "server"

\* a running helper container has the volume mounted
HelperRunsOn(v) ==
    \E c \in containers : /\ c.id \in {HELPER, HELPER_RETRY}
                          /\ c.state = "running"
                          /\ VolumeMount(v) \in c.mounts

\* "await super().start()": DockerSpawner creates the container with
\* self.volumes mounted and extra_host_config applied, and starts it; the
\* engine creates a named volume that does not exist
StartContainer ==
    /\ spawner.pc = "start"
    /\ \E ok \in BOOLEAN :
        LET names == {v.name : v \in spawner.volumes}
            mine == get_volume_name(spawner.name)
        IN  IF ok
            THEN /\ containers' = containers \cup
                        {[id |-> SERVER, state |-> "running",
                          mounts |-> {VolumeMount(v) : v \in names}]}
                 /\ volumes' = volumes \cup names
                 /\ created' = [v \in DOMAIN created |->
                                  IF v \in names \ volumes THEN created[v] + 1 ELSE created[v]]
                 /\ UNCHANGED content
                 /\ spawner' = [spawner EXCEPT
                        !.pc = "done", !.starts = @ + 1, !.out = "container",
                        !.at_start = [files |-> IF mine \in names THEN content[mine] ELSE {},
                                      helper |-> mine \in names /\ HelperRunsOn(mine),
                                      limits |-> spawner.extra_host_config,
                                      volumes |-> spawner.volumes]]
            ELSE /\ spawner' = [spawner EXCEPT !.pc = "done", !.starts = @ + 1,
                                               !.out = "raise"]
                 /\ UNCHANGED engineVars
    /\ UNCHANGED <<environ, hubconf, srcfile, tar, applied, http, allocVars, collector, seedVars>>

\* the volumes of the engine, with the read-only volumes of the spawns
SpawnVolumeNames == VolumeNames \cup {UserVolume(n).name : n \in SpawnNames}

\* one spawn while the volume-cleaner sweeps: the hub and the API were started
\* with the same pool size
InitSpawn ==
    /\ \E max_users \in HubPools, percentage \in Percentages :
        /\ environ = max_users
        /\ hubconf = HubConf(max_users, percentage)
    /\ hub = NoHub
    /\ call = NoCall
    /\ applied = NotApplied
    /\ http = [r \in Routes |-> NoResponse]
    /\ srcfile = NoFile
    /\ tar = IdleTar
    /\ spawner = IdleSpawner
    /\ alloc = [c \in Callers |-> IdleAlloc]
    /\ volumes \in {{}, {get_volume_name(GUEST \o Str(0))}}
    /\ created = [v \in SpawnVolumeNames |-> IF v \in volumes THEN 1 ELSE 0]
    /\ content = [v \in SpawnVolumeNames |-> {}]
    /\ containers = {}
    /\ collector = [s \in Sweeps |-> IdleSweep]
    /\ image = TRUE
    /\ storage = {get_storage_path(PLAIN_NOTEBOOK)}
    /\ seed = IdleSeed

NextSpawn ==
    \/ SpawnerConstruct
    \/ StartSetup
    \/ StartSeedVolume
    \/ SeedSteps
    \/ StartSeedReturn
    \/ StartContainer
    \/ CleanerStart
    \/ CollectListVolumes(CLEANER)
    \/ CollectListContainers(CLEANER)
    \/ CollectLoop(CLEANER)
    \/ CollectReturn(CLEANER)

SpecSpawn == InitSpawn /\ [][NextSpawn]_vars

\* ------------------------------------------------- the pool size, updated
\* the key of the pool size
CKAN_JUPYTERHUB_USER == "CKAN_JUPYTERHUB_USER"

\* arguments of update_env_variable: no dict, or a dict of one key, which is
\* the pool size or another variable, and an int value
Updates ==
    [dict : BOOLEAN, key : {CKAN_JUPYTERHUB_USER, "CKAN_STORAGE_PATH"}, value : 1..MaxPool]

\* update_env_variable(updates): os.environ[key] = str(value) in the process
\* of the API; the hub's process keeps the environment it was started with
UpdateEnvVariable ==
    /\ \E updates \in Updates :
        IF ~updates.dict
        THEN /\ applied' = [NotApplied EXCEPT !.fn = "update_env_variable", !.ok = FALSE]
             /\ UNCHANGED environ
        ELSE /\ applied' = [NotApplied EXCEPT !.fn = "update_env_variable", !.ok = TRUE,
                                              !.arg = EnvStr(Str(updates.value))]
             /\ environ' = IF updates.key = CKAN_JUPYTERHUB_USER
                           THEN EnvStr(Str(updates.value)) ELSE environ
    /\ UNCHANGED <<hubconf, spawner, srcfile, tar, http, allocVars, engineVars, collector, seedVars>>

\* the hub spawns for the identity get_free_user returned
SpawnAllocated ==
    /\ call.op = "get_free_user"
    /\ call.out.kind = "user"
    /\ Construct(call.out.user, <<>>)
    /\ UNCHANGED <<environ, hubconf, srcfile, tar, applied, http, allocVars, engineVars, collector, seedVars>>

\* the API and the hub were started with the same pool size
InitEnv ==
    /\ \E max_users \in HubPools :
        /\ environ = max_users
        /\ hubconf = HubConf(max_users, Unset)
    /\ hub \in {BusyListing(k) : k \in 0..MaxPool} \cup {HubDown}
    /\ call = NoCall
    /\ applied = NotApplied
    /\ http = [r \in Routes |-> NoResponse]
    /\ srcfile = NoFile
    /\ tar = IdleTar
    /\ spawner = IdleSpawner
    /\ alloc = [c \in Callers |-> IdleAlloc]
    /\ EngineEmpty
    /\ collector = [s \in Sweeps |-> IdleSweep]
    /\ SeederIdle

NextEnv == UpdateEnvVariable \/ GetFreeUser \/ SpawnAllocated \/ StartSetup

SpecEnv == InitEnv /\ [][NextEnv]_vars

\* -------------------------------------------------------- allocator claims
\* enumerate(N) of the specification: {guest0, ..., guest<N-1>}
Universe(n) == {GUEST \o Str(i) : i \in 0..(n - 1)}

\* the pool size, when the environment holds a positive integer
PoolSize == IF environ \in PoolSizes THEN IntOf(environ.val).val ELSE 0

\* the busy set the session query of this call returned
BusySet == get_running_users(call.impl, hub)

AllocationDone == call.op = "get_free_user" /\ PoolSize >= 1 /\ BusySet.kind = "return"

\* C1: for every pool size N >= 1 and every busy set B the session query
\* returns, get_free_user returns None exactly when enumerate(N) minus B is
\* empty, and otherwise an identity of enumerate(N) that is not in B.
C1_AllocatesFreeGuest ==
    AllocationDone =>
        LET free == Universe(PoolSize) \ BusySet.names
        IN  /\ call.out.kind \in {"none", "user"}
            /\ (call.out.kind = "none") <=> (free = {})
            /\ call.out.kind = "user" => call.out.user \in free

\* a guest was handed out while another guest of the pool was busy
C1_Witness ==
    /\ AllocationDone
    /\ PoolSize = 2
    /\ BusySet.names \cap Universe(PoolSize) # {}
    /\ call.out.kind = "user"

\* a failure the session query meets: no response, a non-2xx status, a payload
\* that is not JSON, not a sequence of records, or holds a record without name
QueryFailure ==
    \/ hub.transport # "ok"
    \/ hub.status \notin 200..299
    \/ hub.body.json # "list"
    \/ \E i \in DOMAIN hub.body.items :
           ~hub.body.items[i].dict \/ ~hub.body.items[i].has_name

\* C7: get_running_users never raises to its caller; on a network error, a
\* timeout, a non-2xx response or a malformed payload it returns the empty
\* set. Stated for the refactored copy (api.py).
C7_QueryDegradesToEmpty ==
    (call.op = "get_running_users" /\ call.impl = "api" /\ QueryFailure)
        => call.out = Returned({})

\* C7, the consequence for the allocator: with a valid pool and a failing
\* query, get_free_user still hands out a guest (every slot counts as free).
C7_AllocatorContinues ==
    (call.op = "get_free_user" /\ call.impl = "api" /\ PoolSize >= 1 /\ QueryFailure)
        => call.out.kind = "user"

\* -------------------------------------------------------- collector claims
Sweep == collector["sweep_a"]

ListedNames == {l.name : l \in Sweep.listed}

\* decode of the specification: the name with its leading 'jupyterhub-' stripped
Decode(volume_name) == SubSeq(volume_name, Len(JUPYTERHUB_PREFIX) + 1, Len(volume_name))

\* the names running containers mount with mount type 'volume'
UsedSet ==
    {m.Name : m \in {x \in UNION {c.mounts : c \in {d \in containers : d.state = "running"}} :
                        x.Type = "volume"}}

\* the volumes the specification's collector removes: guest-prefixed, decoding
\* to an identity of enumerate(N), not used
Removable ==
    {v \in ListedNames :
        /\ StartsWith(v, GUEST_VOLUME_PREFIX)
        /\ Decode(v) \in Universe(PoolSize)
        /\ v \notin UsedSet}

RemovedSet == {c.name : c \in {x \in Sweep.calls : x.ok}}

AttemptedSet == {c.name : c \in Sweep.calls}

\* the sweep took both listings, ran its loop and returned a count
SweepReturnedCount == Sweep.pc = "done" /\ Sweep.result >= 0

\* C2: given one volume listing, one running-container listing, a pool size N
\* and every removal call succeeding, the sweep removes exactly the
\* guest-prefixed volumes that decode to an identity of enumerate(N) and are
\* not used; every other listed volume still exists, and the returned count is
\* the size of the removed set.
C2_RemovesExactlyOrphans ==
    (SweepReturnedCount /\ PoolSize >= 1 /\ \A c \in Sweep.calls : c.ok) =>
        /\ RemovedSet = Removable
        /\ (ListedNames \ Removable) \subseteq volumes
        /\ Removable \cap volumes = {}
        /\ Sweep.result = Cardinality(Removable)

\* C8: a failed removal does not abort the sweep: every candidate of the
\* listing is attempted, a failed one is not counted, and the returned count
\* is the number of removals that succeeded.
C8_SweepSurvivesFailure ==
    (Sweep.pc = "done" /\ Sweep.calls # {}) =>
        /\ AttemptedSet =
              {v \in ListedNames : ShouldRemove(v, Sweep.used, Sweep.guest_list)}
        /\ Sweep.result = Cardinality(RemovedSet)

\* C8 restricted to the refactored copy (api.py), where it holds
C8_ApiSweepSurvivesFailure == Sweep.impl = "api" => C8_SweepSurvivesFailure

\* a sweep of api.py went on after a failed removal and removed a volume
C8_ApiWitness ==
    /\ Sweep.impl = "api"
    /\ Sweep.pc = "done"
    /\ \E c \in Sweep.calls : ~c.ok
    /\ \E c \in Sweep.calls : c.ok

\* C9: decode(get_volume_name(g)) = g for every guest identity g, and every
\* volume the collector issues a removal on is get_volume_name(g) for some g
\* of enumerate(N); a volume of any other name is never removed.
C9_OnlyGuestVolumesTouched ==
    /\ \A g \in GuestNames : ExtractUsername(get_volume_name(g)) = g
    /\ \A c \in Sweep.calls :
          \E g \in Universe(PoolSize) : c.name = get_volume_name(g)

\* ----------------------------------------------------------- seeder claims
\* the pipeline (copy_file_to_volume, or the inline copy of jupyterhub_api.py)
\* was entered and has returned or raised
PipelineLeft == seed.pc \in {"return", "done"} /\ seed.steps.image # "-"

\* the call reports success: copy_notebook_to_container returns True,
\* _seed_volume returns without raising
ReportsSuccess == seed.pc = "done" /\ seed.result.val \in {"True", "None"}

\* C3: on every exit path of the pipeline (image ensure, container create,
\* container start, directory creation, archive build, archive write, each
\* succeeding or failing) no helper container of the call still exists,
\* running or created. Stated for the paths on which the removal, where it
\* was called, did not itself fail.
C3_NoHelperResidue ==
    (PipelineLeft /\ seed.steps.remove # "failed") => ~HelperExists

\* C4: a seed call (copy_file_to_volume under copy_notebook_to_container or
\* _seed_volume) reports success only if image ensure, helper create and
\* start, the directory creation inside the helper and the archive write all
\* succeeded.
C4_SuccessOnlyIfAllStepsSucceeded ==
    (ReportsSuccess /\ seed.caller \in {"api", "spawner"}) =>
        /\ seed.steps.image = "ok"
        /\ seed.steps.create = "ok"
        /\ seed.steps.start = "ok"
        /\ seed.steps.mkdir = "ok"
        /\ seed.steps.build = "ok"
        /\ seed.steps.write = "ok"

\* C5: the reported outcome is that of steps 1-4 whatever the removal of the
\* helper does: success when they succeeded and the removal failed, and the
\* step's own failure when one of them failed.
C5_RemovalDoesNotChangeOutcome ==
    (seed.pc = "done" /\ seed.caller \in {"api", "spawner"} /\ seed.steps.remove = "failed") =>
        IF seed.pending.kind = "return"
        THEN ReportsSuccess
        ELSE ~ReportsSuccess /\ seed.result.exc = seed.pending.exc

\* the call looked for its source and did not find it: the os.path.exists
\* test of api.py, create_tar_archive under _seed_volume
SourceFoundMissing ==
    /\ seed.pc = "done"
    /\ seed.src_file_path \notin storage
    /\ \/ seed.caller = "api" /\ seed.result.logged = "source file not found"
       \/ seed.caller = "spawner" /\ seed.steps.build = "failed"

SourceNotFoundOutcome ==
    /\ ~ReportsSuccess
    /\ \/ seed.result.logged = "source file not found"
       \/ seed.result.exc = "FileNotFoundError"

\* C6: seeding a source path that does not exist fails with a source-not-found
\* outcome on the API path and on the spawner path, and no helper container of
\* the call remains.
C6_MissingSourceLeavesNoHelper ==
    SourceFoundMissing => SourceNotFoundOutcome /\ ~HelperExists

\* ------------------------------------------------------ concurrency claims
\* C10: every volume a sweep removes is a volume that existed when the sweep
\* took its volume listing; a volume created after the listing, also one
\* created under a listed name that was deleted meanwhile, is never removed by
\* that sweep.
C10_RemovesOnlyListedVolumes ==
    \A s \in Sweeps : \A c \in collector[s].calls :
        c.hit # 0 => [name |-> c.name, gen |-> c.hit] \in collector[s].listed

\* ------------------------------------------------------- liveness claims
\* an in-universe guest volume that exists and that no container references
\* (so that no running container mounts it and the engine can remove it)
Orphaned(v) ==
    /\ v \in volumes
    /\ v \in {get_volume_name(g) : g \in Universe(PoolSize)}
    /\ ~InUse(v)

\* a complete sweep that listed v while v was orphaned has called the removal
\* of v, and when that call succeeded v is gone
OneSweepSuffices ==
    \A v \in {get_volume_name(g) : g \in Universe(PoolSize)} :
        (/\ collector[CLEANER].pc = "done"
         /\ collector[CLEANER].result >= 0
         /\ v \in {l.name : l \in collector[CLEANER].listed}
         /\ v \notin collector[CLEANER].used) =>
            /\ \E c \in collector[CLEANER].calls : c.name = v
            /\ (\E c \in collector[CLEANER].calls : c.name = v /\ c.ok) => v \notin volumes

\* C11: an in-universe guest volume that exists and is, from some point on,
\* never mounted by a running container is eventually removed under fair
\* periodic invocation of cleanup_unused_volumes and an engine whose removal of
\* it eventually succeeds; one complete sweep during which it stays orphaned
\* and its removal succeeds is sufficient.
C11_OrphanEventuallyRemoved ==
    /\ \A v \in GuestVolumes : Orphaned(v) ~> (v \notin volumes)
    /\ []OneSweepSuffices

\* a sweep of the cleaner removed an orphan after an earlier removal failed
C11_Witness ==
    /\ collector[CLEANER].pc = "done"
    /\ \E c \in collector[CLEANER].calls : c.ok /\ c.name \notin volumes
    /\ \E c \in collector[CLEANER].calls : ~c.ok

\* ---------------------------------------------------- reservation claims
\* caller c has a result and caller d has its running_list, both read before
\* the hub listed a server for the guest c was given
BothQueriedBeforeStart(c, d) ==
    /\ c # d
    /\ alloc[c].pc = "done" /\ alloc[c].out.kind = "user"
    /\ alloc[d].pc = "pick"
    /\ alloc[c].out.user \notin alloc[d].running_list
    /\ alloc[c].out.user \in Range(alloc[d].guest_list)

\* C12: allocation makes no reservation. When the session queries of two
\* get_free_user calls both complete before the platform records a server for
\* the guest the first was given, that guest is still among the guests the
\* second may be returned; a call's result is drawn from its own guest_list
\* and running_list alone.
C12_NoReservation ==
    /\ \A c, d \in Callers :
          BothQueriedBeforeStart(c, d) => alloc[c].out \in Choices(d)
    /\ \A c \in Callers :
          (alloc[c].pc = "done" /\ alloc[c].out.kind = "user") =>
              alloc[c].out.user \in Range(alloc[c].guest_list) \ alloc[c].running_list

\* two calls returned the same guest
C12_Witness ==
    /\ alloc["caller_a"].pc = "done" /\ alloc["caller_b"].pc = "done"
    /\ alloc["caller_a"].out.kind = "user"
    /\ alloc["caller_a"].out = alloc["caller_b"].out
    /\ alloc["caller_a"].out.user \notin LiveServers

\* ------------------------------------------------------ enumerator claims
\* the argument is the decimal literal of a positive integer
IsPositiveInteger(e) ==
    /\ e.set
    /\ e.val # <<>>
    /\ \A i \in 1..Len(e.val) : e.val[i] \in {DigitChars[d] : d \in 1..10}
    /\ \E i \in 1..Len(e.val) : e.val[i] # "0"

\* C13: get_guest_list(n) fails whenever n is not a positive integer: unset,
\* empty, non-numeric, zero and negative values all fail rather than yield an
\* empty or partial list.
C13_RejectsNonPositive ==
    (applied.fn = "get_guest_list" /\ ~IsPositiveInteger(applied.arg)) => ~applied.ok

\* largest integer the arguments spell
EnumMax == 11 * MaxPool

\* the index an identity decodes to: what follows 'guest', read as an integer
IndexOf(identity) == IntOf(SubSeq(identity, Len(GUEST) + 1, Len(identity)))

\* C16: for every N >= 1, get_guest_list(N) is a sequence of exactly N
\* pairwise distinct identities, the i-th being 'guest' + i for i in [0, N),
\* each decoding back to its index, and two calls with the same N return the
\* same sequence.
C16_EnumeratesExactlyN ==
    \A N \in 1..EnumMax :
        (applied.fn = "get_guest_list" /\ applied.arg = EnvStr(Str(N))) =>
            /\ applied.ok
            /\ Len(applied.list) = N
            /\ \A i \in 1..N : applied.list[i] = GUEST \o Str(i - 1)
            /\ \A i, j \in 1..N : applied.list[i] = applied.list[j] => i = j
            /\ \A i \in 1..N :
                  IndexOf(applied.list[i]).ok /\ IndexOf(applied.list[i]).val = i - 1
            /\ applied.list = applied.first

\* the list was computed twice for a pool of more than one guest
C16_Witness ==
    /\ applied.fn = "get_guest_list"
    /\ applied.calls = 2
    /\ applied.ok
    /\ Len(applied.list) > 1

\* -------------------------------------------------- configuration claims
\* CKAN_JUPYTERHUB_USER is unset, empty, or no integer literal
PoolMissingOrNonNumeric == ~environ.set \/ ~IntOf(environ.val).ok

\* C14: when the pool size is missing or non-numeric, get_free_user surfaces
\* a failure its caller can tell from 'no slot available' (None) and from a
\* guest name. Stated for api.py.
C14_ConfigFailureSurfaced ==
    (call.op = "get_free_user" /\ call.impl = "api" /\ PoolMissingOrNonNumeric) =>
        call.out.kind = "raise"

\* C14, the collector: when the pool size is missing or non-numeric,
\* cleanup_unused_volumes of api.py returns -1, having listed and removed no
\* volume.
C14_CollectorTouchesNothing ==
    (Sweep.pc = "done" /\ Sweep.impl = "api" /\ PoolMissingOrNonNumeric) =>
        /\ Sweep.result = -1
        /\ Sweep.listed = {}
        /\ Sweep.calls = {}

\* ------------------------------------------------------------ route claims
\* /get_user answered while the configuration is valid, the hub answers, and
\* every guest of the pool has a running server
AllSlotsBusy ==
    /\ http["get_user"].status # 0
    /\ PoolSize >= 1
    /\ hub.transport = "ok" /\ hub.status = 200
    /\ Universe(PoolSize) \subseteq LiveServers

\* /cleanup_volumes answered a sweep that met no fault and removed nothing
NothingToCollect ==
    /\ collector[CLEANER].pc = "responded"
    /\ PoolSize >= 1
    /\ collector[CLEANER].result = 0

CleanupReportsZero ==
    NothingToCollect =>
        /\ http["cleanup_volumes"].status = 200
        /\ http["cleanup_volumes"].success
        /\ http["cleanup_volumes"].data = [kind |-> "removed_count", user |-> <<>>, count |-> 0]

\* C15 as stated: 'no slot available' and 'nothing to collect' are success
\* outcomes with a none/zero payload, never an error outcome, at the core and
\* at the /get_user and /cleanup_volumes routes.
C15_EmptyOutcomesAreSuccess ==
    /\ AllSlotsBusy => (call.out = NoUser /\ http["get_user"].success)
    /\ CleanupReportsZero

\* C15 as the code has it: 'nothing to collect' is a success with count 0 at
\* the core and at /cleanup_volumes; 'no slot available' is the result None at
\* the core, and /get_user reports it as its documented 503 with success
\* false, apart from the 500 of a fault.
C15_EmptyOutcomesAsDocumented ==
    /\ AllSlotsBusy =>
          /\ call.out = NoUser
          /\ http["get_user"].status = 503
          /\ ~http["get_user"].success
    /\ (http["get_user"].status = 503) => call.out = NoUser
    /\ CleanupReportsZero

\* both routes answered: no slot at /get_user, nothing removed at
\* /cleanup_volumes
C15_Witness ==
    /\ AllSlotsBusy
    /\ NothingToCollect
    /\ http["cleanup_volumes"].status = 200

\* ------------------------------------------------------------ retry claims
\* the call made again has ended
RetryDone == seed.pc = "done" /\ seed.retry

FirstSucceeded == seed.first.val \in {"True", "None"}

\* the files of the volume are those a single call left: one file under the
\* source's base name, holding the source's bytes
ContentAsAfterOneCall ==
    (RetryDone /\ FirstSucceeded) =>
        /\ content[seed.volume_name] = seed.first.files
        /\ {f \in content[seed.volume_name] : f.name = Basename(seed.src_file_path)}
              = {ArchiveEntry(seed.src_file_path)}

\* C17: seeding is idempotent under retry: calling copy_file_to_volume twice
\* with the same volume, source and target directory leaves the volume's files
\* as they were after a single call (one file under the source's base name, no
\* duplicate, same content), and no helper container is left after either
\* call.
C17_SeedingIdempotent ==
    /\ ContentAsAfterOneCall
    /\ RetryDone => (~seed.first.helper /\ ~HelperExists)

\* C17, the files alone
C17_ContentIdempotent == ContentAsAfterOneCall

\* C17 for two calls that both report success
C17_IdempotentWhenBothSucceed ==
    (RetryDone /\ FirstSucceeded /\ seed.result.val \in {"True", "None"}) =>
        (~seed.first.helper /\ ~HelperExists)

\* a volume that held an older file of the same name was seeded twice
C17_RetryWitness ==
    /\ RetryDone /\ FirstSucceeded /\ seed.result.val \in {"True", "None"}
    /\ OLD_FILE \notin content[seed.volume_name]
    /\ seed.notebook_name = OLD_FILE.name

\* ------------------------------------------------------------ order claims
\* the candidates of the sweep, from the two snapshots alone
Candidates ==
    {v \in ListedNames : ShouldRemove(v, UsedVolumes(containers), GuestListOf(PoolSize))}

\* the candidates whose removal call the engine let succeed
Succeeded == {v \in Candidates : \E c \in Sweep.calls : c.name = v /\ c.ok}

\* C18: for fixed snapshots of volumes and running containers and fixed
\* per-volume removal outcomes, the set of volumes cleanup_unused_volumes
\* removes and the count it returns are the same for every iteration order:
\* whatever the order, each candidate of the snapshots is attempted exactly
\* once, the volumes removed are the candidates whose removal succeeded, and
\* the count is their number. Stated for api.py.
C18_OrderIndependent ==
    (Sweep.pc = "done" /\ Sweep.impl = "api" /\ Sweep.result >= 0 /\ PoolSize >= 1) =>
        /\ AttemptedSet = Candidates
        /\ \A c, d \in Sweep.calls : c.name = d.name => c = d
        /\ RemovedSet = Succeeded
        /\ volumes = ListedNames \ Succeeded
        /\ Sweep.result = Cardinality(Succeeded)

\* a sweep with several candidates, visited in some order, of which one could
\* not be removed
C18_Witness ==
    /\ Sweep.pc = "done" /\ Sweep.impl = "api" /\ Sweep.result >= 1
    /\ Cardinality(Candidates) >= 3
    /\ Succeeded # Candidates

\* ------------------------------------------------------- filename claims
\* the name holds '/' or '\', or two dots in a row
NamesSeparatorOrParent(name) ==
    \E i \in 1..Len(name) :
        \/ name[i] \in {"/", "\\"}
        \/ i < Len(name) /\ name[i] = "." /\ name[i + 1] = "."

\* the request ended without docker.from_env(), without a step of
\* copy_file_to_volume, and so without a helper container or a new volume
RejectedBeforeEngine ==
    /\ seed.pc = "done"
    /\ seed.steps = NoSteps
    /\ seed.result.exc = "-"
    /\ seed.result.val # "True"
    /\ ~HelperExists

\* path is <storage root>/notebook/<name> for a name that is one segment
DirectChild(path) ==
    /\ StartsWith(path, STORAGE_NOTEBOOK)
    /\ LET name == SubSeq(path, Len(STORAGE_NOTEBOOK) + 1, Len(path))
       IN  /\ name # <<>>
           /\ \A i \in 1..Len(name) : name[i] # "/"
           /\ name \notin {<<".">>, <<".", ".">>}

\* C19: a seed request whose filename holds a path separator ('/' or '\') or a
\* parent-directory segment ('..') is rejected before the engine is touched,
\* whichever caller of this repository makes it: copy_notebook_to_container
\* of api.py returns False, the /copy_notebook route answers 400, the
\* spawner's start() does not seed; no docker client, helper container or
\* volume is created.
C19_TraversalRejectedBeforeEngine ==
    (/\ seed.pc # "idle"
     /\ seed.caller \in {"api", "route", "spawner"}
     /\ NamesSeparatorOrParent(seed.notebook_name)) =>
        /\ RejectedBeforeEngine
        /\ seed.caller = "api" => seed.result.val = "False"
        /\ seed.caller = "route" => http["copy_notebook"].status = 400

\* the part of C19 that api.py and the route keep
C19_ApiAndRouteReject ==
    (/\ seed.pc # "idle"
     /\ seed.caller \in {"api", "route"}
     /\ NamesSeparatorOrParent(seed.notebook_name)) =>
        /\ RejectedBeforeEngine
        /\ seed.caller = "api" => seed.result.val = "False"
        /\ seed.caller = "route" => http["copy_notebook"].status = 400

\* the conclusion of C19, which all three callers keep: the source path that
\* reaches copy_file_to_volume is a direct child of <storage root>/notebook
C19_SourceIsDirectChild ==
    (seed.caller \in {"api", "spawner"} /\ seed.pc \notin {"idle", "done"}) =>
        DirectChild(seed.src_file_path)

\* the spawner seeds a name with a backslash and two dots
C19_SpawnerSeedsBackslashName ==
    /\ seed.caller = "spawner"
    /\ seed.notebook_name = BACKSLASH_NOTEBOOK
    /\ HelperExists

\* -------------------------------------------------------- archive claims
RECURSIVE Join(_, _, _)
\* the bytes of blocks i..j of an archive
Join(blocks, i, j) ==
    IF i > j THEN <<>> ELSE blocks[i].bytes \o Join(blocks, i + 1, j)

RECURSIVE Members(_, _)
\* the members a reader finds from block i on: each header is followed by the
\* blocks of its data, of which the first 'size' bytes are the content; a
\* block that is no header ends the archive
Members(blocks, i) ==
    IF i > Len(blocks) \/ blocks[i].kind # "header" THEN <<>>
    ELSE LET info == blocks[i].info
             n == (info.size + BLOCKSIZE - 1) \div BLOCKSIZE
         IN  IF i + n > Len(blocks) THEN <<>>
             ELSE <<[info |-> info,
                     content |-> SubSeq(Join(blocks, i + 1, i + n), 1, info.size)]>>
                  \o Members(blocks, i + n + 1)

\* what a reader of the stream extracts, reading from the stream's position
Extracted(buf) == Members(buf.blocks, buf.pos \div BLOCKSIZE + 1)

\* the archive is what the claim says of a file: one entry named by the
\* path's final segment, of the file's size, mode 0644 and content
ArchiveOf(out) ==
    /\ out.exc = "-"
    /\ out.buf.pos = 0
    /\ Len(Extracted(out.buf)) = 1
    /\ LET entry == Extracted(out.buf)[1]
       IN  /\ entry.info.name = Basename(out.file.path)
           /\ entry.info.size = Len(out.file.data)
           /\ entry.info.mode = MODE_0644
           /\ entry.content = out.file.data

\* C20: for every existing source file with content C, the empty file
\* included, create_tar_archive returns a stream positioned at its start that
\* holds exactly one entry, whose name is the path's final segment, whose
\* size is len(C), whose mode is 0644 and whose extracted content is C;
\* building twice from an unchanged file yields identical archives; a path
\* that does not exist fails with FileNotFoundError.
C20_ArchiveRoundTrip ==
    /\ tar.pc # "idle" =>
          IF tar.first.file.exists THEN ArchiveOf(tar.first)
          ELSE tar.first.exc = "FileNotFoundError"
    /\ tar.pc = "twice" =>
          /\ IF tar.second.file.exists THEN ArchiveOf(tar.second)
             ELSE tar.second.exc = "FileNotFoundError"
          /\ tar.second.file = tar.first.file => tar.second.buf = tar.first.buf

\* two archives were built from an unchanged file whose content does not fill
\* its last block and ends in a zero byte, under a path with a directory
C20_Witness ==
    /\ tar.pc = "twice"
    /\ tar.first.file.exists
    /\ tar.second.file = tar.first.file
    /\ Len(tar.first.file.data) = MaxContent
    /\ tar.first.file.data[MaxContent] = NUL
    /\ Basename(tar.first.file.path) # tar.first.file.path

\* --------------------------------------------------------- spawner claims
\* start() is over with the notebook server started
ServerStarted == spawner.pc = "done" /\ spawner.out = "container"

\* the file the seeding of this start() wrote
SeededFile == ArchiveEntry(get_storage_path(spawner.notebook_name))

\* the sweep removed the volume of the spawn's user
SweptAway ==
    \E c \in collector[CLEANER].calls : c.name = get_volume_name(spawner.name) /\ c.ok

\* C21: if the seeding for guest g succeeds during start(), the seeded file is
\* in g's volume at the moment g's notebook container starts, under every
\* interleaving with a collector sweep.
C21_SeededFilePresentAtStart ==
    (ServerStarted /\ spawner.seeding = "ok") => SeededFile \in spawner.at_start.files

\* what the code keeps of C21: the file is there unless the sweep removed the
\* volume
C21_PresentUnlessSwept ==
    (ServerStarted /\ spawner.seeding = "ok") =>
        SeededFile \in spawner.at_start.files \/ SweptAway

\* the removal calls the sweep issues in this step
IssuedNow == collector'[CLEANER].calls \ collector[CLEANER].calls

\* C22: the collector never issues a removal call for a volume that a running
\* container (notebook server or seeding helper) has mounted at the moment
\* the call is issued, also when the container started after the sweep listed
\* the running containers.
C22_NoRemovalCallOnMountedVolume ==
    [][\A c \in IssuedNow : c.name \notin UsedVolumes(containers)]_vars

\* what the code keeps of C22: a call is issued only for a volume that was
\* not mounted when the sweep listed the running containers, and the engine
\* lets no call succeed on a volume a container has mounted
C22_NoRemovalCallOnListedUse ==
    [][\A c \in IssuedNow : /\ c.name \notin collector[CLEANER].used
                            /\ c.ok => c.name \notin UsedVolumes(containers)]_vars

\* start() has reached "await super().start()" for a guest with a notebook
StartReached == spawner.pc \in {"start", "done"} /\ spawner.seeding # "-"

ServerRuns == \E c \in containers : c.id = SERVER /\ c.state = "running"

\* C23: in start() for a guest with a requested notebook, the whole seeding
\* task, the removal of the helper container included, has finished before the
\* notebook container's start is invoked: the helper and the notebook container
\* never run at the same time on the volume.
C23_SeedingFinishedBeforeStart ==
    /\ StartReached => seed.pc = "done"
    /\ ~(ServerRuns /\ HelperRunsOn(get_volume_name(spawner.name)))

\* what the code keeps of C23: _seed_volume has returned or raised before the
\* start is invoked, and no helper runs beside the notebook container unless
\* the helper's removal failed
C23_SeedingReturnedBeforeStart ==
    /\ StartReached => seed.pc = "done"
    /\ (ServerRuns /\ HelperRunsOn(get_volume_name(spawner.name))) =>
          seed.steps.remove = "failed"

\* the spawn's user is in the spawner's user_list
TreatedAsGuest == spawner.name \in Range(spawner.user_list)

\* start() of a guest is over and had reached "Copy notebook if specified"
GuestStartOver == spawner.pc = "done" /\ TreatedAsGuest /\ spawner.out # "ValueError"

HubPoolSize ==
    IF Truthy(hubconf.environ) /\ IntOf(hubconf.environ.val).ok
    THEN IntOf(hubconf.environ.val).val ELSE 0

\* the CPU percentage of the hub's environment, 100 when it is unset
HubPercentage ==
    IF hubconf.percentage.set THEN IntOf(hubconf.percentage.val).val ELSE 100

\* start() has gone through its branch on the user's name
SetupDone == spawner.pc \in {"seed", "seeding", "start", "done"}

PullsNow == seed'.pulls > seed.pulls

\* the pull of this call failed
PullFailed == seed.steps.image = "failed" /\ seed.out.exc = "ImagePullFailed"

\* the call has made no container of its own
NoHelperOfCall == seed.steps.create = "-" /\ ~(\E c \in containers : c.id = HelperId)

\* C26: the seeding pulls the helper image only when it is not present
\* locally; if the pull fails, the call fails with that error and no helper
\* container has been created, and the call makes no second pull. Stated for
\* copy_file_to_volume of utils.py and for the inline pipeline of
\* jupyterhub_api.py.
C26_PullsOnlyWhenAbsent ==
    /\ [][PullsNow => ~image /\ seed.steps.image = "-"]_vars
    /\ [](PullFailed => NoHelperOfCall /\ seed.pc \in {"return", "done"})

\* what the code keeps of C26: copy_file_to_volume of utils.py does all of it
C26_UtilsPullsOnlyWhenAbsent ==
    /\ [][(PullsNow /\ seed.caller # "legacy") => ~image /\ seed.steps.image = "-"]_vars
    /\ [](PullFailed => NoHelperOfCall /\ seed.pc \in {"return", "done"})

\* ---------------------------------------------------------- pool size claims
\* get_free_user returned an identity
Allocated == call.op = "get_free_user" /\ call.out.kind = "user"

\* C27: after any sequence of update_env_variable, get_free_user and spawner
\* constructions, every identity get_free_user returns is in the guest list
\* the spawner captures at construction and in the hub's allowed_users, so
\* that an allocated identity is spawned as a guest.
C27_AllocatedIsSpawnedAsGuest ==
    /\ Allocated =>
          /\ call.out.user \in hubconf.allowed_users
          /\ call.out.user \in Universe(HubPoolSize)
    /\ (Allocated /\ SetupDone /\ spawner.name = call.out.user) =>
          /\ spawner.name \in Range(spawner.user_list)
          /\ spawner.volumes = {[name |-> JUPYTERHUB_PREFIX \o spawner.name, mode |-> "rw"]}

\* what the code keeps of C27: the identity is a guest of the hub as long as
\* update_env_variable was not called
C27_GuestWhilePoolNotGrown ==
    (Allocated /\ applied.fn # "update_env_variable") =>
        /\ call.out.user \in hubconf.allowed_users
        /\ call.out.user \in Universe(HubPoolSize)

\* an identity past the hub's pool was allocated and spawned as a non-guest
C27_SpawnedAsNonGuest ==
    /\ Allocated
    /\ SetupDone
    /\ spawner.name = call.out.user
    /\ spawner.volumes = {UserVolume(spawner.name)}

====
